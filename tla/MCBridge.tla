------------------------------ MODULE MCBridge ------------------------------
(***************************************************************************)
(* A reply, entries of several lengths and two orders to purge.            *)
(***************************************************************************)
EXTENDS Bridge

MCSizes == <<2, 3, 2, 2, 4, 2, 3, 2, 3>>
MCKind == <<"reply", "entry", "entry", "purge", "entry", "reply", "entry",
            "purge", "entry">>
=============================================================================
