-------------------------- MODULE TsuruAppAddress --------------------------
(***************************************************************************)
(* The TsuruAppAdress controller (src/controllers/tsuruappadress_          *)
(* controller.go): for each TsuruAppAdress record it asks the platform API *)
(* for the app's routers, looks up every router address in turn (10s       *)
(* timeout each, a failed lookup is skipped), and writes the sorted,       *)
(* deduplicated IPs and Ready into the record's status when they differ.   *)
(*                                                                         *)
(* The controller has one worker (default MaxConcurrentReconciles) and     *)
(* nothing else in the repository writes this type, so its Reconciles run *)
(* one after another; what interleaves with them is the environment: DNS   *)
(* answers change between two lookups, users create and delete records,    *)
(* API calls fail.                                                         *)
(***************************************************************************)
EXTENDS Naturals, Sequences, SequencesExt, FiniteSets

CONSTANTS
  Apps,           \* app names, one record each
  Hosts,          \* router host names
  IPs,            \* addresses DNS can answer
  AppRouters,     \* app -> AppInfo(app).Routers: a sequence of [address, addresses]
  Deletable,      \* records a user may delete
  MaxFaults,      \* bound on API errors and failed or timed-out lookups
  MaxDNSChanges,  \* bound on changes of DNS answers
  NoRecord,       \* the record has not been created
  Gone,           \* the record was deleted (not re-created in this model)
  InitDNS         \* the first answer of each host

VARIABLES
  appAddr,     \* app -> stored record, NoRecord or Gone
  dnsHist,     \* the DNS answers so far: a sequence of [host -> set of IPs]
  tq,          \* the controller's work queue of record keys
  tl,          \* the worker's local state of the Reconcile in progress
  faults       \* faults injected so far

vars == <<appAddr, dnsHist, tq, tl, faults>>

\* What a lookup of each host returns now, and how many changes came before.
dns == dnsHist[Len(dnsHist)]
dnsVersion == Len(dnsHist) - 1

\* status.Ready and status.RouterIPs; seen is history: the DNS version at
\* the Get of the Reconcile that wrote them.
Record == [ready : BOOLEAN, ips : SUBSET IPs, seen : Nat]

Local == [pc : {"idle", "lookup", "write", "done"}, app : Apps, res : {"ok", "err"},
          ready : BOOLEAN, ips : SUBSET IPs, addrs : Seq(Hosts), i : Nat,
          found : SUBSET IPs, from : Nat]

IdleLocal(app) == [pc |-> "idle", app |-> app, res |-> "ok", ready |-> FALSE,
                   ips |-> {}, addrs |-> <<>>, i |-> 1, found |-> {}, from |-> 0]

\* tsuruNet.URLToHost: the host part of a router address.
URLToHost(u) == u.host

\* addrs: per router, the host of each of r.Addresses, or of r.Address
\* when there is none, in the routers' order (duplicates kept).
RouterHosts(r) ==
  IF r.addresses # <<>> THEN [k \in DOMAIN r.addresses |-> URLToHost(r.addresses[k])]
                        ELSE <<URLToHost(r.address)>>

Addrs(app) == FoldLeft(LAMBDA acc, r : acc \o RouterHosts(r), <<>>, AppRouters[app])

\* Mutant: the IPs found are added to the stored ones.
ResolvedIPsMerged(l) == l.found \cup l.ips

\* resolvedIPs: the keys of foundIPs, sorted (a set here).
ResolvedIPs(l) == l.found

CanFault == faults < MaxFaults

Fault == /\ CanFault
         /\ faults' = faults + 1

\* Lookup i is done: on to the next address, or to the write after the last.
NextAddr(l) == [l EXCEPT !.i = @ + 1, !.pc = IF l.i = Len(l.addrs) THEN "write" ELSE "lookup"]

-----------------------------------------------------------------------------
(***************************************************************************)
(* The worker takes a key and Gets the record: NotFound returns nil, a     *)
(* failed Get or AppInfo returns the error; otherwise the lookups start    *)
(* with an empty foundIPs.                                                 *)
(***************************************************************************)
CtlStart ==
  /\ tl.pc = "idle"
  /\ \E app \in tq :
       /\ tq' = tq \ {app}
       /\ \/ /\ appAddr[app] \in {NoRecord, Gone}
             /\ tl' = [IdleLocal(app) EXCEPT !.pc = "done"]
             /\ UNCHANGED faults
          \/ /\ Fault
             /\ tl' = [IdleLocal(app) EXCEPT !.pc = "done", !.res = "err"]
          \/ /\ appAddr[app] \in Record
             /\ tl' = [IdleLocal(app) EXCEPT
                         !.pc = IF Addrs(app) = <<>> THEN "write" ELSE "lookup",
                         !.ready = appAddr[app].ready, !.ips = appAddr[app].ips,
                         !.addrs = Addrs(app), !.from = dnsVersion]
             /\ UNCHANGED faults
  /\ UNCHANGED <<appAddr, dnsHist>>

\* resolveAddress of addrs[i] with its own timeout: its IPs join foundIPs;
\* an error or a timeout is skipped (continue).
Lookup ==
  /\ tl.pc = "lookup"
  /\ \/ /\ tl' = NextAddr([tl EXCEPT !.found = @ \cup dns[tl.addrs[tl.i]]])
        /\ UNCHANGED faults
     \/ Fault /\ tl' = NextAddr(tl)
  /\ UNCHANGED <<appAddr, dnsHist, tq>>

(***************************************************************************)
(* If the record read was not Ready or its RouterIPs differ, set Ready and *)
(* the IPs and Status().Update it: NotFound when it was deleted, or an API *)
(* error or conflict, returns the error.  A successful update is a watch   *)
(* event: the key is queued again.                                         *)
(***************************************************************************)
Write ==
  LET l == tl IN
  /\ l.pc = "write"
  /\ IF l.ready /\ ResolvedIPs(l) = l.ips
       THEN /\ tl' = [l EXCEPT !.pc = "done"]
            /\ UNCHANGED <<appAddr, tq, faults>>
       ELSE \/ /\ appAddr[l.app] \in Record
               /\ appAddr' = [appAddr EXCEPT ![l.app] =
                                [ready |-> TRUE, ips |-> ResolvedIPs(l), seen |-> l.from]]
               /\ tq' = tq \cup {l.app}
               /\ tl' = [l EXCEPT !.pc = "done"]
               /\ UNCHANGED faults
            \/ /\ appAddr[l.app] = Gone
               /\ tl' = [l EXCEPT !.pc = "done", !.res = "err"]
               /\ UNCHANGED <<appAddr, tq, faults>>
            \/ /\ Fault
               /\ tl' = [l EXCEPT !.pc = "done", !.res = "err"]
               /\ UNCHANGED <<appAddr, tq>>
  /\ UNCHANGED dnsHist

\* Reconcile returns: an error requeues the key (rate-limited), success
\* returns ctrl.Result{} and does not.
CtlFinish ==
  /\ tl.pc = "done"
  /\ tl' = IdleLocal(tl.app)
  /\ tq' = IF tl.res = "err" THEN tq \cup {tl.app} ELSE tq
  /\ UNCHANGED <<appAddr, dnsHist, faults>>

-----------------------------------------------------------------------------
\* The environment.  A user creates a record (empty status) or deletes it;
\* either is a watch event.
CreateRecord(app) ==
  /\ appAddr[app] = NoRecord
  /\ appAddr' = [appAddr EXCEPT ![app] = [ready |-> FALSE, ips |-> {}, seen |-> 0]]
  /\ tq' = tq \cup {app}
  /\ UNCHANGED <<dnsHist, tl, faults>>

DeleteRecord(app) ==
  /\ app \in Deletable
  /\ appAddr[app] \in Record
  /\ appAddr' = [appAddr EXCEPT ![app] = Gone]
  /\ tq' = tq \cup {app}
  /\ UNCHANGED <<dnsHist, tl, faults>>

\* The answer DNS gives for a host changes.
DNSChange ==
  /\ dnsVersion < MaxDNSChanges
  /\ \E h \in Hosts, s \in SUBSET IPs :
       /\ s # dns[h]
       /\ dnsHist' = Append(dnsHist, [dns EXCEPT ![h] = s])
  /\ UNCHANGED <<appAddr, tq, tl, faults>>

Init ==
  /\ appAddr = [a \in Apps |-> NoRecord]
  /\ dnsHist = <<InitDNS>>
  /\ tq = {}
  /\ tl = IdleLocal(CHOOSE a \in Apps : TRUE)
  /\ faults = 0

CtlStep == CtlStart \/ Lookup \/ Write \/ CtlFinish

Next ==
  \/ CtlStep
  \/ \E app \in Apps : CreateRecord(app) \/ DeleteRecord(app)
  \/ DNSChange

\* controller-runtime keeps the worker running: it is weakly fair.
Spec == Init /\ [][Next]_vars /\ WF_vars(CtlStep)

TypeOK ==
  /\ appAddr \in [Apps -> Record \cup {NoRecord, Gone}]
  /\ dnsHist \in Seq([Hosts -> SUBSET IPs])
  /\ dnsVersion \in 0..MaxDNSChanges
  /\ tq \subseteq Apps
  /\ tl \in Local
  /\ faults \in 0..MaxFaults

(***************************************************************************)
(* Every record eventually holds the current answer of all its addresses:  *)
(* once DNS stops changing, each record is resolved again (spec 4.4 step   *)
(* 9: the periodic pass re-resolves dependencies whose watch signals might *)
(* be missed).  Reconcile returns ctrl.Result{} on success and a DNS       *)
(* change is no watch event of the record.                                 *)
(***************************************************************************)
EventuallyFresh ==
  \A app \in Apps :
     <>[](appAddr[app] \in Record =>
            appAddr[app].ips = UNION {dns[Addrs(app)[k]] : k \in DOMAIN Addrs(app)})

(***************************************************************************)
(* The controller implements AddressRecord: seen without the worker and    *)
(* the faults, every status write replaces the record by a Ready status    *)
(* whose IPs are the answers, each of some moment since the Reconcile's    *)
(* Get, of the addresses whose lookups succeeded; that Get is no older     *)
(* than the one of the write it replaces; and every record that is not     *)
(* deleted becomes Ready (errors are retried, faults are finite).          *)
(***************************************************************************)
AR == INSTANCE AddressRecord WITH
        rec <- appAddr, AddrsOf <- [a \in Apps |-> Addrs(a)]

RefinesAddressRecord == AR!Spec
=============================================================================
