------------------------ MODULE MCCollectionControl ------------------------
EXTENDS CollectionControl

CONSTANTS t1, t2

OneForker == {t1}
TwoForkers == {t1, t2}
NoForker == {}
AllActors == {"main", "window", t1, t2}

\* ROCPROFSYS_TRACE_PERIODS and the settings that make a single period
NoPeriod == <<>>
TwoPeriods == <<[delay |-> TRUE, duration |-> TRUE, repeat |-> 2],
                [delay |-> FALSE, duration |-> TRUE, repeat |-> 0]>>
MCSettings == {NoPeriod, TwoPeriods}

\* Settings under which the code contradicts its documentation
DelayOnly == {<<[delay |-> TRUE, duration |-> FALSE, repeat |-> 1]>>}
TwoDelays == {<<[delay |-> FALSE, duration |-> TRUE, repeat |-> 1],
                [delay |-> TRUE, duration |-> TRUE, repeat |-> 1]>>}
=============================================================================
