-------------------------- MODULE MCACLReconciler --------------------------
(***************************************************************************)
(* Two ACLs of app "web" that both reach app "db" (one shared              *)
(* TsuruAppAddress record, created by whichever pass gets there first),    *)
(* two ACL workers and the records' controllers.  db's record resolves     *)
(* through host h1, which answers 1 and may change once; IP 2 is a         *)
(* Service's ClusterIP.                                                    *)
(*   a1: db, then the single host 2 with ports                             *)
(*   a2: db, then pool "p1"                                                *)
(* and, for the shapes that produce no egress (MCACLReconciler_shapes):    *)
(*   a3: a source with neither app nor instance, then the single host 1    *)
(*   a4: a wildcard DNS name, then an empty destination                    *)
(* and, for external DNS names (host h1 has an ACLDNSEntry):              *)
(*   a5: the name h1 with ports                                            *)
(*   a6: the name h1 without ports, then pool "p1"                         *)
(* and an rpaas instance r1 whose address resolves through h1:             *)
(*   a7: the instance r1, then the name h1 with ports                      *)
(***************************************************************************)
EXTENDS ACLReconciler

MCSource == [a \in ACLs |-> IF a = "a3" THEN [kind |-> "none"]
                                   ELSE IF a = "a7" THEN [kind |-> "rpaas", inst |-> "r0"]
                                        ELSE [kind |-> "app", app |-> "web"]]

MCDests ==
  [a \in ACLs |->
     IF a = "a1"
       THEN <<[kind |-> "app", app |-> "db"],
              [kind |-> "ip", ip |-> 2, host |-> TRUE, ports |-> TRUE]>>
     ELSE IF a = "a2"
       THEN <<[kind |-> "app", app |-> "db"],
              [kind |-> "pool", pool |-> "p1"]>>
     ELSE IF a = "a3"
       THEN <<[kind |-> "ip", ip |-> 1, host |-> TRUE, ports |-> FALSE]>>
     ELSE IF a = "a5"
       THEN <<[kind |-> "dns", host |-> "h1", ports |-> TRUE]>>
     ELSE IF a = "a7"
       THEN <<[kind |-> "rpaas", inst |-> "r1"],
              [kind |-> "dns", host |-> "h1", ports |-> TRUE]>>
     ELSE IF a = "a6"
       THEN <<[kind |-> "dns", host |-> "h1", ports |-> FALSE],
              [kind |-> "pool", pool |-> "p1"]>>
       ELSE <<[kind |-> "wildcard"], [kind |-> "none"]>>]

MCServiceOf == [ip \in IPs |-> IF ip = 2 THEN "svc" ELSE NoOwner]

MCAddrHost == [k \in Apps \cup RpaasKeys |-> "h1"]

MCInitDNS == [h \in Hosts |-> {1}]

\* The ACL workers are interchangeable (safety runs only).
WorkerSymmetry == Permutations(Workers)
=============================================================================
