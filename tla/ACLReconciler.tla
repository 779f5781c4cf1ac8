--------------------------- MODULE ACLReconciler ---------------------------
(***************************************************************************)
(* The ACL reconciler (src/controllers/acl_controller.go, Reconcile and    *)
(* its helpers): for each ACL it builds the egress rules of one            *)
(* NetworkPolicy from the ACL's destinations, creating and eagerly         *)
(* reconciling the shared address record of every app, DNS name and rpaas  *)
(* instance destination,                                                   *)
(* widens single-host IP rules with the selector of the Service that owns  *)
(* the IP (service cache), writes the NetworkPolicy only when it differs   *)
(* from the stored one, and reflects the outcome in the ACL's status.      *)
(*                                                                         *)
(* Up to |Workers| passes run at once (MaxConcurrentReconciles: 4), never  *)
(* two of the same ACL.  Every API call of a pass is a step; the calls     *)
(* that can fail do so nondeterministically within the fault budget.  The  *)
(* records' reconcilers (TsuruAppAddressReconciler, ACLDNSEntryReconciler, *)
(* RpaasInstanceAddressReconciler) are not in src/: each is one atomic     *)
(* step, modelled from the spec, run inline and by its own controller.     *)
(***************************************************************************)
EXTENDS Naturals, Sequences, SequencesExt, FiniteSets

CONSTANTS
  ACLs,        \* ACL objects
  Workers,     \* the ACL controller's concurrent workers
  Source,      \* acl -> spec.source: [kind |-> "app", app] or [kind |-> "none"]
  Dests,       \* acl -> spec.destinations, a sequence of destination records
  ServiceOf,   \* ip -> owner of the Service with that ClusterIP, or NoOwner
  NoOwner,
  NoPolicy,    \* the NetworkPolicy does not exist
  DNSKeys,     \* hosts named by the ACLs' externalDNS destinations
  RpaasKeys,   \* rpaas instances named by the ACLs' destinations
  Deletable,   \* ACLs a user may delete
  Apps,        \* apps named by the ACLs' tsuruApp destinations
  AddrHost,    \* app or instance -> the host its record resolves through
  Hosts,       \* DNS host names
  IPs,         \* addresses DNS can answer
  InitDNS,     \* the first answer of each host
  MaxFaults,   \* bound on API errors and failed lookups
  MaxDNSChanges, \* bound on changes of DNS answers
  NoRecord     \* a record that does not exist

VARIABLES
  dnsHist,     \* the DNS answers so far: a sequence of [host -> set of IPs]
  faults,      \* faults injected so far
  aclStatus,   \* acl -> status: [ready, reason, np (policy name recorded)]
  np,          \* acl -> stored NetworkPolicy [egress, owned] or NoPolicy
  queue,       \* the ACL controller's work queue
  wl,          \* worker -> local state of the pass it runs
  cache,       \* serviceCache pointer: "nil", "unloaded" or "loaded"
  lastPass,    \* acl -> did its last finished pass succeed (history)
  deleted,     \* the ACLs deleted so far
  entry        \* key -> status [ready, ips] of its TsuruAppAddress,
               \* ACLDNSEntry or RpaasInstanceAddress, or NoRecord

envVars == <<dnsHist, faults>>
aclVars == <<aclStatus, np, queue, wl, cache, lastPass>>
vars == <<envVars, aclVars, entry, deleted>>

\* What a lookup of each host returns now.
dns == dnsHist[Len(dnsHist)]

-----------------------------------------------------------------------------
(***************************************************************************)
(* Egress rules.  A peer is a pod selector (of an app or a pool), an       *)
(* IPBlock (host: its CIDR ends in /32 or /128) or the selector and        *)
(* namespace of a Service.  ports is the rule's Ports slice: "nil" (not    *)
(* set), "empty" (the empty slice r.ports returns for no ports) or "set".  *)
(***************************************************************************)
AppPeer(a) == [sel |-> <<"tsuru.io/app-name", a>>]
PoolPeer(p) == [sel |-> <<"tsuru.io/app-pool", p>>]
IPPeer(ip, host) == [cidr |-> ip, host |-> host]
SvcPeer(o) == [svc |-> o]
RpaasPeer(k) == [sel |-> <<"rpaas.extensions.tsuru.io/instance-name", k>>]

Peer == {AppPeer(a) : a \in Apps} \cup {RpaasPeer(k) : k \in RpaasKeys} \cup {SvcPeer(o) : o \in Range(ServiceOf) \ {NoOwner}}
          \cup {IPPeer(ip, h) : ip \in IPs, h \in BOOLEAN}
          \cup {PoolPeer(d.pool) : d \in {d \in UNION {Range(Dests[x]) : x \in ACLs} :
                                            d.kind = "pool"}}

Rule == [to : Seq(Peer), ports : {"nil", "empty", "set"}]

\* r.ports(p): a non-nil slice, empty when the destination lists no ports.
PortsOf(d) == IF d.ports THEN "set" ELSE "empty"

\* egressRulesForExternalIP: one IPBlock rule; an address without "/" gets
\* /32 or /128 appended, so it denotes a single host.
ExternalIPRules(d) == <<[to |-> <<IPPeer(d.ip, d.host)>>, ports |-> PortsOf(d)]>>

\* egressRulesForTsuruAppPool
PoolRules(d) == <<[to |-> <<PoolPeer(d.pool)>>, ports |-> "nil"]>>

(***************************************************************************)
(* egressRulesForResourceAddressStatus: one egressRulesForExternalIP rule, *)
(* without ports, per IP of a record's status, in its sorted order.        *)
(* egressRulesForTsuruApp once the record is at hand: the app's pod        *)
(* selector, then those rules.                                             *)
(***************************************************************************)
StatusRules(ips) ==
  LET sorted == SetToSortSeq(ips, <) IN
  [k \in 1..Len(sorted) |-> [to |-> <<IPPeer(sorted[k], TRUE)>>, ports |-> "empty"]]

AppRules(app, ips) == <<[to |-> <<AppPeer(app)>>, ports |-> "nil"]>> \o StatusRules(ips)

\* egressRulesForRpaasInstance: the same, with the instance's pod selector,
\* from the RpaasInstanceAddress whatever its Ready flag.
RpaasRules(k, e) == <<[to |-> <<RpaasPeer(k)>>, ports |-> "nil"]>> \o StatusRules(e.ips)

(***************************************************************************)
(* egressRulesForExternalDNS once the entry is at hand: no rule while it   *)
(* is not Ready; otherwise one rule whose peers are the IPBlocks of the    *)
(* entry's IPs (/32 or /128 each), with the destination's ports.           *)
(***************************************************************************)
DNSRules(d, e) ==
  IF ~e.ready THEN <<>>
  ELSE LET sorted == SetToSortSeq(e.ips, <) IN
       <<[to |-> [k \in 1..Len(sorted) |-> IPPeer(sorted[k], TRUE)], ports |-> PortsOf(d)]>>

(***************************************************************************)
(* egressRulesForDestination for the destinations that need no API call:   *)
(* a pool, an external IP, a wildcard external DNS name (isWildCard: no    *)
(* rule, no error) and an empty destination (nil, nil).                    *)
(***************************************************************************)
LocalRules(d) ==
  CASE d.kind = "pool"     -> PoolRules(d)
    [] d.kind = "ip"       -> ExternalIPRules(d)
    [] d.kind = "wildcard" -> <<>>
    [] d.kind = "none"     -> <<>>

IsHostBlock(p) == "cidr" \in DOMAIN p /\ p.host

(***************************************************************************)
(* fillPodSelectorByCIDR: every rule gets, after its own peers, one        *)
(* Service peer per single-host IPBlock peer whose IP the cache maps to a  *)
(* Service (svc == nil: continue).                                         *)
(***************************************************************************)
\* Mutant: the svc == nil check is dropped.
EnrichPeersNoNilCheck(to) ==
  LET owned == SelectSeq(to, IsHostBlock)
  IN [k \in 1..Len(owned) |-> SvcPeer(ServiceOf[owned[k].cidr])]

EnrichPeers(to) ==
  LET owned == SelectSeq(to, LAMBDA p : IsHostBlock(p) /\ ServiceOf[p.cidr] # NoOwner)
  IN [k \in 1..Len(owned) |-> SvcPeer(ServiceOf[owned[k].cidr])]

fillPodSelectorByCIDR(rules) ==
  [k \in DOMAIN rules |-> [rules[k] EXCEPT !.to = @ \o EnrichPeers(@)]]

NeedsCache(rules) == \E k \in DOMAIN rules : \E j \in DOMAIN rules[k].to :
                        IsHostBlock(rules[k].to[j])

(***************************************************************************)
(* What the API server stores and returns: Ports is omitempty, so an empty *)
(* slice comes back as nil.  reflect.DeepEqual tells nil and empty apart.  *)
(***************************************************************************)
Stored(rules) ==
  [k \in DOMAIN rules |-> [rules[k] EXCEPT !.ports = IF @ = "empty" THEN "nil" ELSE @]]

\* podSelectorForSource: nil when the source names neither app nor instance.
HasSelector(a) == Source[a].kind # "none"

EntryStatus == [ready : BOOLEAN, ips : SUBSET IPs]

EntryKeys == Apps \cup DNSKeys \cup RpaasKeys

Reasons == {"", "noSelector", "destErr", "cacheErr", "noEgress"}

Status == [ready : BOOLEAN, reason : Reasons, np : BOOLEAN]

PCs == {"idle", "dest", "entryGet", "entryCreate", "entrySub", "entryReget",
        "fill", "write", "status", "unready"}

\* owned: the policy carries a controller reference to its ACL.
Policy == [egress : Seq(Rule), owned : BOOLEAN]

Local == [pc : PCs, acl : ACLs, i : Nat, rules : Seq(Rule),
          np : Policy \cup {NoPolicy}, changed : BOOLEAN,
          reason : Reasons]

IdleLocal(a) == [pc |-> "idle", acl |-> a, i |-> 1, rules |-> <<>>,
                 np |-> NoPolicy, changed |-> FALSE, reason |-> ""]

\* An idle worker keeps nothing of its last pass.
Idle == IdleLocal(CHOOSE a \in ACLs : TRUE)

CanFault == faults < MaxFaults

Fault == /\ CanFault
         /\ faults' = faults + 1

\* Worker w moves on to program point pc with local state changes l.
Goto(w, l) == wl' = [wl EXCEPT ![w] = l]

\* The destination the pass of w is at.
Cur(w) == Dests[wl[w].acl][wl[w].i]

\* The pass of w over ACL a ends: w is idle again and the key is added to
\* the queue if the pass requeues it or its status write changed the ACL
\* (a watch event).
EndPass(w, a, enqueue, ok) ==
  /\ wl' = [wl EXCEPT ![w] = Idle]
  /\ lastPass' = [lastPass EXCEPT ![a] = ok]
  /\ queue' = IF enqueue THEN queue \cup {a} ELSE queue

\* A call of the pass of w over a fails: Reconcile returns the error, the
\* key is requeued with backoff, the status is left as it is.
FailPass(w, a) ==
  /\ Fault
  /\ EndPass(w, a, TRUE, FALSE)
  /\ UNCHANGED aclStatus

-----------------------------------------------------------------------------
\* The ACL read has a pod selector.  A deleted ACL's Get is NotFound, which
\* the pass ignores: it goes on with the empty object, whose source is empty.
Selects(a) == a \notin deleted /\ HasSelector(a)

\* Status().Update of a deleted ACL fails: NotFound for an object read before
\* the deletion, "resource name may not be empty" for the empty object.  The
\* error is returned and the key requeued.
DeletedStatusWrite(w, a) ==
  /\ a \in deleted
  /\ EndPass(w, a, TRUE, FALSE)
  /\ UNCHANGED <<aclStatus, faults>>

(***************************************************************************)
(* Reconcile: Get the ACL and the NetworkPolicy named in its status (or    *)
(* acl-<name>); either failing returns the error.  Ownership and policy    *)
(* types are set on the object read (they only matter for a new one); with *)
(* no pod selector for the source the pass marks the ACL unready.          *)
(***************************************************************************)
Start(w, a) ==
  /\ wl[w].pc = "idle"
  /\ a \in queue
  /\ \A v \in Workers : wl[v].pc = "idle" \/ wl[v].acl # a
  /\ \/ FailPass(w, a)
     \/ /\ queue' = queue \ {a}
        /\ Goto(w, [IdleLocal(a) EXCEPT
                      !.pc = IF Selects(a) THEN "dest" ELSE "unready",
                      !.reason = IF Selects(a) THEN "" ELSE "noSelector",
                      !.np = np[a]])
        /\ UNCHANGED <<aclStatus, lastPass, faults>>
  /\ UNCHANGED <<dnsHist, np, cache, entry, deleted>>

(***************************************************************************)
(* The loop over spec.destinations: an app destination goes through        *)
(* ensureTsuruAppAddress, a DNS name through ensureDNSEntry, an rpaas      *)
(* instance through ensureRpaasInstanceAddress; the others contribute      *)
(* their rules at once.                                                    *)
(* After the last destination the pass fills selectors by CIDR.            *)
(***************************************************************************)
Dest(w) ==
  LET l == wl[w] IN
  /\ l.pc = "dest"
  /\ IF l.i > Len(Dests[l.acl])
       THEN Goto(w, [l EXCEPT !.pc = "fill"])
     ELSE IF Cur(w).kind \in {"app", "dns", "rpaas"}
       THEN Goto(w, [l EXCEPT !.pc = "entryGet"])
       ELSE Goto(w, [l EXCEPT !.rules = @ \o LocalRules(Cur(w)), !.i = @ + 1])
  /\ UNCHANGED <<envVars, aclStatus, np, queue, cache, lastPass>>

\* Mutant: a failed destination is skipped and the loop goes on.
DestSkipped(w) == Goto(w, [wl[w] EXCEPT !.pc = "dest", !.i = @ + 1])

\* The failure of a destination aborts the pass: setUnreadyStatus with the
\* destination in the reason.
DestFailed(w) == Goto(w, [wl[w] EXCEPT !.pc = "unready", !.reason = "destErr"])

(***************************************************************************)
(* ensureTsuruAppAddress, ensureDNSEntry and ensureRpaasInstanceAddress:   *)
(* the same get-or-create-and-reconcile for the destination's              *)
(* TsuruAppAddress (key: the app; validResourceName is the identity for    *)
(* these names), ACLDNSEntry (the host) or RpaasInstanceAddress (the       *)
(* instance).  An existing record is used whatever its Ready flag.  Their  *)
(* reconcilers (not in this repository) resolve the key's host, skip a     *)
(* failed lookup, and write Ready and the IPs; the eager call and the      *)
(* record's own controller run them whole.                                 *)
(***************************************************************************)
EntryKey(d) == CASE d.kind = "app" -> d.app [] d.kind = "dns" -> d.host [] OTHER -> d.inst

EntryHost(k) == IF k \in DNSKeys THEN k ELSE AddrHost[k]

EntryReconcile(k) ==
  \/ entry' = [entry EXCEPT ![k] = [ready |-> TRUE, ips |-> dns[EntryHost(k)]]]
     /\ UNCHANGED faults
  \/ Fault /\ entry' = [entry EXCEPT ![k] = [ready |-> TRUE, ips |-> {}]]

\* The destination's rules from the entry at hand.
EntryRules(d, e) ==
  CASE d.kind = "app" -> AppRules(d.app, e.ips)
    [] d.kind = "dns" -> DNSRules(d, e)
    [] OTHER          -> RpaasRules(d.inst, e)

EntryDone(w, e) ==
  Goto(w, [wl[w] EXCEPT !.pc = "dest", !.i = @ + 1, !.rules = @ \o EntryRules(Cur(w), e)])

EntryGet(w) ==
  LET k == EntryKey(Cur(w)) IN
  /\ wl[w].pc = "entryGet"
  /\ \/ Fault /\ DestFailed(w)
     \/ entry[k] # NoRecord /\ EntryDone(w, entry[k]) /\ UNCHANGED faults
     \/ /\ entry[k] = NoRecord
        /\ Goto(w, [wl[w] EXCEPT !.pc = "entryCreate"])
        /\ UNCHANGED faults
  /\ UNCHANGED <<dnsHist, aclStatus, np, queue, cache, lastPass, entry>>

EntryCreate(w) ==
  LET k == EntryKey(Cur(w)) IN
  /\ wl[w].pc = "entryCreate"
  /\ \/ entry[k] # NoRecord /\ DestFailed(w) /\ UNCHANGED <<entry, faults>>
     \/ entry[k] = NoRecord /\ Fault /\ DestFailed(w) /\ UNCHANGED entry
     \/ /\ entry[k] = NoRecord
        /\ entry' = [entry EXCEPT ![k] = [ready |-> FALSE, ips |-> {}]]
        /\ Goto(w, [wl[w] EXCEPT !.pc = "entrySub"])
        /\ UNCHANGED faults
  /\ UNCHANGED <<dnsHist, aclStatus, np, queue, cache, lastPass>>

\* The sub-reconcile; its error (a failed Get or Update) fails the destination.
EntrySub(w) ==
  /\ wl[w].pc = "entrySub"
  /\ \/ Fault /\ DestFailed(w) /\ UNCHANGED entry
     \/ EntryReconcile(EntryKey(Cur(w))) /\ Goto(w, [wl[w] EXCEPT !.pc = "entryReget"])
  /\ UNCHANGED <<dnsHist, aclStatus, np, queue, cache, lastPass>>

EntryReget(w) ==
  /\ wl[w].pc = "entryReget"
  /\ \/ Fault /\ DestFailed(w)
     \/ EntryDone(w, entry[EntryKey(Cur(w))]) /\ UNCHANGED faults
  /\ UNCHANGED <<dnsHist, aclStatus, np, queue, cache, lastPass, entry>>

\* The entry's own controller reconciles it on its watch events.
EntryCtl(k) ==
  /\ entry[k] # NoRecord
  /\ EntryReconcile(k)
  /\ UNCHANGED <<dnsHist, aclVars, deleted>>

(***************************************************************************)
(* After the loop: getServiceCache creates the cache object on first use;  *)
(* fillPodSelectorByCIDR asks it for every single-host IPBlock, and the    *)
(* first such query loads it, which may fail (the pass marks the ACL       *)
(* unready).  No rule left: unready.  Otherwise compare the egress with    *)
(* the stored policy's (reflect.DeepEqual); a missing policy always        *)
(* changes.                                                                *)
(***************************************************************************)
Fill(w) ==
  LET l == wl[w]
      rules == fillPodSelectorByCIDR(l.rules)
      needs == NeedsCache(l.rules)
  IN
  /\ l.pc = "fill"
  /\ \/ /\ needs /\ cache # "loaded"
        /\ Fault
        /\ cache' = "unloaded"
        /\ Goto(w, [l EXCEPT !.pc = "unready", !.reason = "cacheErr"])
     \/ /\ cache' = IF needs THEN "loaded"
                    ELSE IF cache = "nil" THEN "unloaded" ELSE cache
        /\ Goto(w, IF rules = <<>>
                     THEN [l EXCEPT !.pc = "unready", !.reason = "noEgress"]
                     ELSE [l EXCEPT !.pc = "write", !.rules = rules,
                                    !.changed = l.np = NoPolicy \/ l.np.egress # rules])
        /\ UNCHANGED faults
  /\ UNCHANGED <<dnsHist, aclStatus, np, queue, lastPass>>

\* A policy read with no owner references gets a controller reference to
\* the ACL; one read with references keeps them.
OwnerRefsKept(l) == l.np # NoPolicy /\ l.np.owned
OwnerRefs(l) == IF l.np # NoPolicy /\ l.np.owned THEN l.np.owned ELSE TRUE

\* The Update carries the resourceVersion of the policy read at the start
\* of the pass; it fails (NotFound) once the garbage collector removed it.
UpdateStale(w) == wl[w].np # NoPolicy /\ np[wl[w].acl] # wl[w].np

(***************************************************************************)
(* A policy read as missing (zero CreationTimestamp) is created, a changed *)
(* one updated; either error returns it.  With no change the pass ends     *)
(* here: no write, no status update, requeue after 10 minutes.             *)
(***************************************************************************)
Write(w) ==
  LET l == wl[w]
      a == l.acl
  IN
  /\ l.pc = "write"
  /\ \/ /\ l.np = NoPolicy \/ l.changed
        /\ \/ FailPass(w, a) /\ UNCHANGED np
           \/ /\ UpdateStale(w)
              /\ EndPass(w, a, TRUE, FALSE)
              /\ UNCHANGED <<np, faults, aclStatus>>
           \/ /\ ~UpdateStale(w)
              /\ np' = [np EXCEPT ![a] = [egress |-> Stored(l.rules), owned |-> OwnerRefs(l)]]
              /\ Goto(w, [l EXCEPT !.pc = "status"])
              /\ UNCHANGED <<queue, lastPass, faults, aclStatus>>
     \/ /\ l.np # NoPolicy /\ ~l.changed
        /\ EndPass(w, a, TRUE, TRUE)
        /\ UNCHANGED <<np, faults, aclStatus>>
  /\ UNCHANGED <<dnsHist, cache>>

\* After a create or update: status Ready, reason "", the policy's name.
StatusWrite(w) ==
  LET a == wl[w].acl
      st == [ready |-> TRUE, reason |-> "", np |-> TRUE]
  IN
  /\ wl[w].pc = "status"
  /\ \/ FailPass(w, a)
     \/ DeletedStatusWrite(w, a)
     \/ /\ a \notin deleted
        /\ aclStatus' = [aclStatus EXCEPT ![a] = st]
        /\ EndPass(w, a, TRUE, TRUE)
        /\ UNCHANGED faults
  /\ UNCHANGED <<dnsHist, np, cache>>

(***************************************************************************)
(* setUnreadyStatus: Ready false and the reason, written with              *)
(* Status().Update.  A failed write is returned (requeue); a successful    *)
(* one returns nil and Reconcile returns ctrl.Result{}: no requeue, only   *)
(* the watch event of a status that changed brings the ACL back.           *)
(***************************************************************************)
Unready(w) ==
  LET a == wl[w].acl
      st == [aclStatus[a] EXCEPT !.ready = FALSE, !.reason = wl[w].reason]
  IN
  /\ wl[w].pc = "unready"
  /\ \/ FailPass(w, a)
     \/ DeletedStatusWrite(w, a)
     \/ /\ a \notin deleted
        /\ aclStatus' = [aclStatus EXCEPT ![a] = st]
        /\ EndPass(w, a, st # aclStatus[a], FALSE)
        /\ UNCHANGED faults
  /\ UNCHANGED <<dnsHist, np, cache>>

-----------------------------------------------------------------------------
\* At start-up every ACL is listed and enqueued; nothing else exists yet.
Init ==
  /\ dnsHist = <<InitDNS>>
  /\ faults = 0
  /\ aclStatus = [a \in ACLs |-> [ready |-> FALSE, reason |-> "", np |-> FALSE]]
  /\ np = [a \in ACLs |-> NoPolicy]
  /\ queue = ACLs
  /\ wl = [w \in Workers |-> Idle]
  /\ cache = "nil"
  /\ lastPass = [a \in ACLs |-> FALSE]
  /\ entry = [k \in EntryKeys |-> NoRecord]
  /\ deleted = {}

\* The answer DNS gives for a host changes.
DNSChange ==
  /\ Len(dnsHist) <= MaxDNSChanges
  /\ \E h \in Hosts, S \in SUBSET IPs :
       /\ S # dns[h]
       /\ dnsHist' = Append(dnsHist, [dns EXCEPT ![h] = S])
  /\ UNCHANGED <<faults, aclVars, entry, deleted>>

\* The three ensure helpers: the same Get, Create, inline sub-reconcile and
\* re-Get, over the record of an app, a host or an instance.
EntrySteps(w) == EntryGet(w) \/ EntryCreate(w) \/ EntrySub(w) \/ EntryReget(w)
EnsureTsuruAppAddress(w) ==
  /\ wl[w].pc \in {"entryGet", "entryCreate", "entrySub", "entryReget"}
  /\ Cur(w).kind = "app"
  /\ EntrySteps(w)
EnsureDNSEntry(w) ==
  /\ wl[w].pc \in {"entryGet", "entryCreate", "entrySub", "entryReget"}
  /\ Cur(w).kind = "dns"
  /\ EntrySteps(w)
EnsureRpaasInstanceAddress(w) ==
  /\ wl[w].pc \in {"entryGet", "entryCreate", "entrySub", "entryReget"}
  /\ Cur(w).kind = "rpaas"
  /\ EntrySteps(w)

\* The steps of a pass after Start.
PassStep(w) ==
  /\ \/ /\ \/ Dest(w) \/ Fill(w) \/ Write(w) \/ StatusWrite(w) \/ Unready(w)
        /\ UNCHANGED entry
     \/ EnsureTsuruAppAddress(w) \/ EnsureDNSEntry(w) \/ EnsureRpaasInstanceAddress(w)
  /\ UNCHANGED deleted

\* A user deletes the ACL; the watch event enqueues its key.
DeleteACL(a) ==
  /\ a \in Deletable \ deleted
  /\ deleted' = deleted \cup {a}
  /\ queue' = queue \cup {a}
  /\ UNCHANGED <<envVars, aclStatus, np, wl, cache, lastPass, entry>>

\* The garbage collector deletes a policy whose owner (the controller
\* reference the pass sets on it) is gone.
CollectPolicy(a) ==
  /\ a \in deleted
  /\ np[a] # NoPolicy
  /\ np[a].owned
  /\ np' = [np EXCEPT ![a] = NoPolicy]
  /\ UNCHANGED <<envVars, aclStatus, queue, wl, cache, lastPass, entry, deleted>>

Next ==
  \/ DNSChange
  \/ \E k \in EntryKeys : EntryCtl(k)
  \/ \E w \in Workers : \/ \E a \in ACLs : Start(w, a)
                        \/ PassStep(w)
  \/ \E a \in ACLs : DeleteACL(a) \/ CollectPolicy(a)

(***************************************************************************)
(* controller-runtime keeps every worker of the controller running (a      *)
(* started pass goes on), and its work queue is FIFO: a queued ACL is      *)
(* started even if workers are only free now and then (strong fairness).   *)
(* The garbage collector keeps removing the dependents of deleted owners.  *)
(***************************************************************************)
Fairness ==
  /\ \A w \in Workers : WF_vars(PassStep(w))
  /\ \A a \in ACLs : SF_vars(\E w \in Workers : Start(w, a))
  /\ \A a \in Deletable : WF_vars(CollectPolicy(a))

Spec == Init /\ [][Next]_vars /\ Fairness

-----------------------------------------------------------------------------
TypeOK ==
  /\ dnsHist \in Seq([Hosts -> SUBSET IPs])
  /\ faults \in 0..MaxFaults
  /\ aclStatus \in [ACLs -> Status]
  /\ np \in [ACLs -> Policy \cup {NoPolicy}]
  /\ queue \subseteq ACLs
  /\ wl \in [Workers -> Local]
  /\ cache \in {"nil", "unloaded", "loaded"}
  /\ lastPass \in [ACLs -> BOOLEAN]
  /\ entry \in [EntryKeys -> EntryStatus \cup {NoRecord}]
  /\ deleted \subseteq Deletable


(***************************************************************************)
(* The rules one pass computes for ACL a when the records of its app, DNS  *)
(* and rpaas destinations have the status g[key]: every destination's      *)
(* rules in the order of spec.destinations, then filled by CIDR.           *)
(***************************************************************************)
DestRules(d, g) ==
  IF d.kind \in {"app", "dns", "rpaas"} THEN EntryRules(d, g[EntryKey(d)])
                                        ELSE LocalRules(d)

DesiredRules(a, g) ==
  fillPodSelectorByCIDR(FoldLeft(LAMBDA acc, d : acc \o DestRules(d, g), <<>>, Dests[a]))

\* The statuses the record of key k may hold: created and not Ready, or
\* Ready with the whole answer of one moment of the DNS history for its
\* host, or with none.
EntryStatusOf(k) ==
  {[ready |-> FALSE, ips |-> {}]}
    \cup {[ready |-> TRUE, ips |-> S] :
             S \in {dnsHist[i][EntryHost(k)] : i \in DOMAIN dnsHist} \cup {{}}}

\* The policy of ACL a is what a pass computes from the record statuses g,
\* each a status its reconciler could have produced.
DesiredWith(a, g) ==
  /\ \A k \in DOMAIN g : g[k] \in EntryStatusOf(k)
  /\ np[a].egress = Stored(DesiredRules(a, g))

\* The record keys the destinations of ACL a name.
KeysOf(a) == {EntryKey(d) : d \in {d \in Range(Dests[a]) : d.kind \in {"app", "dns", "rpaas"}}}

\* The records as they are now (a missing one as not Ready).
CurrentEntries ==
  [k \in EntryKeys |-> IF entry[k] = NoRecord THEN [ready |-> FALSE, ips |-> {}] ELSE entry[k]]

(***************************************************************************)
(* Every stored NetworkPolicy is exactly what one whole pass computes for  *)
(* its ACL from some status of each record it names: no destination is    *)
(* missing (a failing destination aborts the pass instead of being left   *)
(* out, spec 4.4 step 4), every single-host IP owned by a Service is       *)
(* widened with that Service's selector next to the IPBlock (step 5), and  *)
(* rules keep the destinations' order.  Passes of different ACLs, the      *)
(* eager sub-reconciles and the records' controllers run concurrently     *)
(* with faults.                                                            *)
(***************************************************************************)
PolicyIsDesired ==
  \A a \in ACLs :
     np[a] # NoPolicy =>
       \/ DesiredWith(a, CurrentEntries)
       \/ \E g \in [KeysOf(a) -> UNION {EntryStatusOf(k) : k \in KeysOf(a)}] :
             DesiredWith(a, g)

(***************************************************************************)
(* A pass that ends on the success path leaves the ACL Ready (spec 4.4:    *)
(* every pass re-evaluates Unready/Ready from scratch; spec 8, status      *)
(* stability).  Checked when no worker is in a pass of the ACL.            *)
(***************************************************************************)
SuccessMeansReady ==
  \A a \in ACLs :
     (lastPass[a] /\ \A w \in Workers : wl[w].pc = "idle" \/ wl[w].acl # a)
       => aclStatus[a].ready

(***************************************************************************)
(* The reconciler issues an Update of an existing NetworkPolicy only when  *)
(* what it would store differs from what is stored (spec 4.4 step 7 and    *)
(* 8: reconciling an unchanged ACL issues no write).                       *)
(***************************************************************************)
UpdateOnlyWhenDifferent ==
  \A w \in Workers :
     LET l == wl[w] IN
     (l.pc = "write" /\ l.np # NoPolicy /\ l.changed) => Stored(l.rules) # l.np.egress

(***************************************************************************)
(* No stored egress rule has an empty peer list: in a NetworkPolicy a rule *)
(* with no "to" allows every destination (on its ports).  A destination   *)
(* whose resolution failed entirely should leave the ACL Unready (spec 7   *)
(* (c)); egressRulesForExternalDNS builds its rule from whatever IPs a     *)
(* Ready ACLDNSEntry holds, none included.                                 *)
(***************************************************************************)
NoAllowAllRule ==
  \A a \in ACLs :
     np[a] # NoPolicy => \A k \in DOMAIN np[a].egress : np[a].egress[k].to # <<>>

(***************************************************************************)
(* Every ACL eventually gets its NetworkPolicy once faults stop: an        *)
(* Unready outcome is retried at the periodic interval (spec 4.4 states,   *)
(* spec 7 (c)).  The informer's resync (10h by default) is not an event   *)
(* of this model, so a violation holds until that resync.                  *)
(***************************************************************************)
EventuallyPolicy == \A a \in ACLs : <>(np[a] # NoPolicy)

(***************************************************************************)
(* A deleted ACL is eventually left alone: its key leaves the work queue   *)
(* and no worker runs it any more.  Spec 4.4 step 1 calls the pass over a  *)
(* deleted ACL "effectively a no-op"; the pass's setUnreadyStatus on the   *)
(* empty object returns an error, and the key is requeued with backoff.   *)
(***************************************************************************)
DeletedForgotten ==
  \A a \in ACLs :
     [](a \in deleted =>
          <>[](a \notin queue /\ \A w \in Workers : wl[w].pc = "idle" \/ wl[w].acl # a))
(***************************************************************************)
(* A deleted ACL's NetworkPolicy is eventually gone for good.  A pass that  *)
(* read the ACL before the deletion may still create or update the policy  *)
(* (the Create at line 157); only the controller reference the pass set on *)
(* it lets the garbage collector remove it, and the passes that follow,    *)
(* which see an empty object, must never create it again.                  *)
(***************************************************************************)
DeletedPolicyCollected ==
  \A a \in ACLs : [](a \in deleted => <>[](np[a] = NoPolicy))
=============================================================================
