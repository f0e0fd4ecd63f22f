----------------------------- MODULE MCRecords -----------------------------
(* Records for TLC: a zone with its apex and one name below it. *)
EXTENDS Records

MCEntries == [apex |-> [soa |-> <<"x">>], www |-> [a |-> <<"x", "y">>]]
Request(op, name, body) == [op |-> op, name |-> name, body |-> body]
MCOtherRequests ==
    {Request("patch", "www", [a |-> <<"z">>]), Request("delete", "www", [a |-> <<"x">>]),
     Request("delzone", "apex", NoEntry), Request("newzone", "apex", [soa |-> <<"y">>])}
=============================================================================
