---------------------------- MODULE MCWipcChannel ----------------------------
\* A magic of two bytes; output that spells it, in one piece or in two, before
\* a type, an unknown type or a length that is too large.  Behind a torn frame:
\* frames, the beginning of one, and bytes that fill the payload of the torn one.
EXTENDS WipcChannel

MCMagic == <<6, 7>>
MCJson == {<<5>>}
MCData == {<<6, 7>>}
MCOutput == {<<6>>, <<7>>, <<2>>, <<1>>, <<9, 6>>, <<6, 7, 3, 8>>}
MCFollowing == {Encode(CALL, <<5>>), Encode(CLOSE, <<>>), First(Encode(DATA, <<6, 7>>), 3),
                <<1>>, <<5>>}
===============================================================================
