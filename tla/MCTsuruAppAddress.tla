------------------------- MODULE MCTsuruAppAddress -------------------------
(***************************************************************************)
(* One app with two routers: r1 has only Address (host h1), r2 has         *)
(* Addresses h2 and h1, so h1 is looked up twice, possibly across a DNS    *)
(* change.                                                                 *)
(***************************************************************************)
EXTENDS TsuruAppAddress

MCAppRouters ==
  [a \in Apps |-> <<[address |-> [host |-> "h1"], addresses |-> <<>>],
                    [address |-> [host |-> "h1"],
                     addresses |-> <<[host |-> "h2"], [host |-> "h1"]>>]>>]

MCInitDNS == [h \in Hosts |-> IF h = "h1" THEN {1} ELSE {2}]
=============================================================================
