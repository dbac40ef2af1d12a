---------------------------- MODULE MCMeiTransport ----------------------------
EXTENDS MeiTransport

Object(id, length) == [id |-> id, length |-> length]
Config(level, objects) == [level |-> level, objects |-> objects]

\* Tables of every category, with values of every size up to the largest.
Valid ==
    {Config(1, <<Object(0, 4), Object(1, 4), Object(2, 2)>>),
     Config(130, <<Object(0, 1), Object(1, 6), Object(2, 0), Object(4, 3)>>),
     Config(131, <<Object(0, 0), Object(1, 0), Object(2, 1), Object(3, 6), Object(128, 2)>>),
     Config(3, <<Object(0, 2), Object(1, 2), Object(2, 2), Object(129, 6)>>)}

Invalid ==
    {Config(4, <<Object(0, 1), Object(1, 1), Object(2, 1)>>),
     Config(1, <<Object(0, 1), Object(1, 1)>>),
     Config(1, <<Object(0, 1), Object(1, 1), Object(2, 1), Object(3, 1)>>),
     Config(131, <<Object(0, 1), Object(1, 1), Object(2, 1), Object(7, 1)>>),
     Config(131, <<Object(0, 1), Object(1, 1), Object(3, 1)>>),
     Config(131, <<Object(0, 1), Object(1, 1), Object(2, 1), Object(2, 1)>>),
     Config(131, <<Object(0, 7), Object(1, 1), Object(2, 1)>>),
     Config(131, <<Object(0, 6), Object(1, 6), Object(2, 1)>>)}

MCConfigurations == Valid \cup Invalid

\* Handlers: success with data that fits, that fits a PDU only, and that fits nothing;
\* exceptions that are standard and one that is not.
MCResults == {[code |-> 0, length |-> n] : n \in {0, 13, 14}}
             \cup {[code |-> c, length |-> 0] : c \in {9, 11}}
===============================================================================
