--------------------------- MODULE AddressRecord ---------------------------
(***************************************************************************)
(* What a TsuruAppAdress record promises its readers, with no worker and   *)
(* no faults: a record is created empty and not Ready, may be deleted, and *)
(* is otherwise only ever replaced, atomically, by a Ready status.  Its    *)
(* IPs are the union, over some of the app's addresses (lookups that fail  *)
(* are skipped), of the answer for that address at some moment between    *)
(* the start of the resolution (seen) and now; a resolution never starts   *)
(* before the one it replaces.  Every record that stays becomes Ready.     *)
(***************************************************************************)
EXTENDS Naturals, Sequences

CONSTANTS Apps, Hosts, IPs, AddrsOf, NoRecord, Gone, InitDNS

VARIABLES
  rec,      \* app -> NoRecord, Gone or [ready, ips, seen]
  dnsHist   \* the DNS answers so far

avars == <<rec, dnsHist>>

Exists(app) == rec[app] \notin {NoRecord, Gone}

\* The IPs of the addresses at positions ok, address k answered at when[k].
AnswerOf(app, ok, when) == UNION {dnsHist[when[k] + 1][AddrsOf[app][k]] : k \in ok}

Init ==
  /\ rec = [a \in Apps |-> NoRecord]
  /\ dnsHist = <<InitDNS>>

Create(app) ==
  /\ rec[app] = NoRecord
  /\ rec' = [rec EXCEPT ![app] = [ready |-> FALSE, ips |-> {}, seen |-> 0]]
  /\ UNCHANGED dnsHist

Delete(app) ==
  /\ Exists(app)
  /\ rec' = [rec EXCEPT ![app] = Gone]
  /\ UNCHANGED dnsHist

Publish(app) ==
  /\ Exists(app)
  /\ \E v \in rec[app].seen .. Len(dnsHist) - 1,
        ok \in SUBSET DOMAIN AddrsOf[app] :
        \E when \in [ok -> v .. Len(dnsHist) - 1] :
           rec' = [rec EXCEPT ![app] = [ready |-> TRUE, ips |-> AnswerOf(app, ok, when),
                                        seen |-> v]]
  /\ UNCHANGED dnsHist

DNSChange ==
  /\ \E d \in [Hosts -> SUBSET IPs] : dnsHist' = Append(dnsHist, d)
  /\ UNCHANGED rec

Next == (\E app \in Apps : Create(app) \/ Delete(app) \/ Publish(app)) \/ DNSChange

\* A record that is not Ready does not stay so.
Fairness == \A app \in Apps : WF_avars(Exists(app) /\ ~rec[app].ready /\ Publish(app))

Spec == Init /\ [][Next]_avars /\ Fairness
=============================================================================
