---------------------------- MODULE MCAddrTable ----------------------------
\* The address table for model checking: devices of two manufacturers with the
\* same device id, and so the same hash value.
EXTENDS AddrTable

MCDevices == {<<"m1", "a">>, <<"m2", "a">>}
MCHash(id) == 1
=============================================================================
