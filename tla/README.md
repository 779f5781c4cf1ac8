# TLA+ models of the ACL operator

These modules model the two controllers under `src/controllers/`:

- `acl_controller.go`: `ACLReconciler`, which turns an ACL into one egress `NetworkPolicy`.
- `tsuruappadress_controller.go`: `TsuruAppAdressReconciler`, which resolves a platform app's router hosts into IPs on a shared address record.

The modules are checked with TLC.

## The system and how its parts interact

| Part | Code | State | Operations |
|---|---|---|---|
| Resource namer | `validResourceName`, `sha256String` | none (a pure function) | sanitize, strip leading, digest, truncate |
| App address resolver | `TsuruAppAdressReconciler.Reconcile` (`tsuruappadress_controller.go`) | the `TsuruAppAdress` record's status: `Ready`, `RouterIPs` | Get, AppInfo, one DNS lookup per router host, compare, `Status().Update` |
| ACL reconciler | `ACLReconciler.Reconcile` and helpers | the ACL status (`Ready`, `Reason`, policy name), the NetworkPolicy, the work queue | Get ACL and policy, rules per destination, fill by CIDR, create or update, status write, `setUnreadyStatus` |
| Service cache | `getServiceCache`, `fillPodSelectorByCIDR` | the `atomic.Pointer` to the cache | lazy creation, first load (may fail), IP-to-Service lookup |
| App-destination record | `ensureTsuruAppAddress`, `egressRulesForTsuruApp`; `TsuruAppAddressReconciler` (not in `src/`) | the `TsuruAppAddress` record's status: `Ready`, `IPs` | Get, Create, inline sub-reconcile, Get again; rules from the IPs |
| DNS-entry resolver | `ensureDNSEntry`, `egressRulesForExternalDNS`; `ACLDNSEntryReconciler` (not in `src/`) | the entry's status: `Ready`, `IPs` | the same four steps; one rule from the entry's IPs |
| Rpaas resolver | `ensureRpaasInstanceAddress`, `egressRulesForRpaasInstance`; `RpaasInstanceAddressReconciler` (not in `src/`) | the record's status: `Ready`, `IPs` | the same four steps; the instance's selector, then one rule per IP |

Two record types have near-identical names. `TsuruAppAdress` (one d) is reconciled by the controller in `tsuruappadress_controller.go`. `TsuruAppAddress` (two d's) is the record an ACL's app destination uses. `ensureTsuruAppAddress` (line 499) runs `TsuruAppAddressReconciler` on it, and that reconciler is not in `src/`. Nothing in `src/` makes the two touch the same object, so they are modelled apart.

The parts interact in these ways:

- An app destination makes the ACL reconciler Get the `TsuruAppAddress` named `validResourceName(app)`.
  - If the record is absent, the reconciler Creates it and runs its reconciler inline (the *eager sub-reconcile*), then Gets it again.
  - The record's own controller reconciles it on its watch events.
  - Two ACL workers can race to Create it.
- A DNS destination does the same with the ACLDNSEntry named `validResourceName(host)`, and an rpaas destination with the RpaasInstanceAddress of the instance. The ACL controller watches only ACLs, so a change of a record never wakes an ACL.
- The ACL controller runs up to 4 workers, never two on the same key. Its queue is FIFO and deduplicating.
- A pass requeues its ACL only in these cases:
  - it returns an error (retried with backoff);
  - it ends on the success path (`RequeueAfter` 10 min);
  - its status write changed the ACL, which is a watch event.
- The `setUnreadyStatus` paths return `Result{}` and a nil error, so they do not requeue. When the status write itself fails, the error is returned and the key is requeued.
- A deleted ACL's delete event enqueues its key. The pass ignores NotFound. The Kubernetes garbage collector removes its policy through the owner reference the pass set.
- The informer also resyncs every object periodically, every 10 hours by default. The liveness violations below hold only until that resync.

## Modules

- **`ResourceNamer`** translates `validResourceName` character by character over an alphabet that has one character of each class the code distinguishes: `a`, `0`, `A`, `_`, `-`, `.`.
  - `IsDNS1123Subdomain` is the grammar as a predicate.
  - `ReplaceIllegal` and `StripLeading` (RECURSIVE) are the two regexps.
  - `Digest` keeps the width and alphabet of `sha256String(name)[:10]`.
  - The state machine walks every key up to `MaxKeyLen` characters.
  - `MCResourceNamer` sets `maxChars` to 5 and the digest to 1 character. This keeps the truncation boundary `maxChars-11` (here `5-2`) within reach of 6-character keys.
- **`TsuruAppAddress`** models `TsuruAppAdressReconciler` alone. Its one worker is the default `MaxConcurrentReconciles`, and nothing else in `src/` writes this type.
  - `CtlStart` (lines 59-76) takes a key from the queue and Gets the record.
    - NotFound returns nil.
    - A failed Get or AppInfo returns the error.
    - Otherwise it reads `Ready` and `RouterIPs`, and builds `addrs` from the routers (`Addrs`, `RouterHosts`, `URLToHost`, duplicates kept).
    - The code's two Gets (record, AppInfo) are one step: nothing of this model changes between them that the pass would read.
  - `Lookup` (lines 87-98) resolves one address per step with its own timeout. A failure or timeout is skipped, so DNS may change between two lookups.
  - `Write` (lines 106-115) does nothing if the record was Ready with equal IPs. Otherwise it does `Status().Update`, which fails on a deleted record or an API error.
  - `CtlFinish` requeues on an error; a success returns `Result{}` and does not requeue. A successful status write is a watch event.
  - The environment:
    - `CreateRecord` and `DeleteRecord` are user actions.
    - `DNSChange` appends to the history `dnsHist`; `dns` is its last answer.
  - The record's `seen` is history only: the DNS version at the Get of the pass that wrote it.
  - `AR` instantiates `AddressRecord` with `rec <- appAddr`, hiding the worker, the queue and the faults.
- **`AddressRecord`** is the abstract record (spec 4.3).
  - `Create` makes it empty and unready; `Delete` removes it.
  - `Publish` replaces it, in one step, by a Ready status whose IPs are, for some subset of the app's addresses (failed lookups are skipped), the answer of each address at its own moment between the start of the resolution and now. The resolution starts no earlier than the one it replaces.
  - Weak fairness on `Publish` of an unready record says every record that stays becomes Ready.
- **`ACLReconciler`** is a program counter per worker, with one action per API call: `Start`, `Dest`, the four entry steps (`EntryGet`, `EntryCreate`, `EntrySub`, `EntryReget`, grouped per kind as `EnsureTsuruAppAddress`, `EnsureDNSEntry` and `EnsureRpaasInstanceAddress`), `Fill`, `Write`, `StatusWrite` and `Unready`.
  - `Start` merges the Get of the ACL and the Get of its policy into one step, a coarsening. Only the ACL's own pass writes either, and per-key serialisation keeps two passes of one ACL apart. `UpdateStale` and `DeletedStatusWrite` model what may change in between: a collected policy or a deleted ACL.
  - `entry` holds the status of each `TsuruAppAddress` (key: the app), ACLDNSEntry (key: the host) and RpaasInstanceAddress (key: the instance). The three ensure functions have the same control flow, so one set of actions models all three.
  - Their reconcilers are not in `src/`. Following spec 4.3, each is one atomic step, `EntryReconcile`: Ready with the current answer for the key's host, or Ready with no IPs when the lookup fails. It runs inline (`EntrySub`) and in the record's own controller (`EntryCtl`).
  - `AppRules`, `DNSRules` and `RpaasRules` build the rules from an entry. `DNSRules` (`egressRulesForExternalDNS`) gives no rule while the entry is not Ready, and otherwise one rule with an IPBlock per IP. The others use the IPs whatever the Ready flag.
  - `deleted` is the set of deleted ACLs. `DeleteACL` enqueues the key.
    - A pass over a deleted ACL sees an empty source (`Selects`), and every status write of a deleted ACL fails (`DeletedStatusWrite`).
    - An `Update` whose policy was collected after the pass read it fails (`UpdateStale`).
    - `CollectPolicy` is the Kubernetes garbage collector, modelled from spec 6. It removes a deleted ACL's policy only when the policy carries the controller reference. `OwnerRefs` (lines 99-105) sets that reference on a policy read with no owner references.
  - Every call that can fail does so within a fault budget. A failure goes to `FailPass` (the error is returned) or to `Unready`, exactly where the code does.
  - Rules are sequences of records. A peer is a selector, an IPBlock or a Service peer. `ports` is one of `"nil"`, `"empty"` or `"set"`, because Go's nil and empty slices differ under `reflect.DeepEqual`. `Stored` is what the API server returns: `Ports` is omitempty, so `"empty"` comes back as `"nil"`.
  - `DesiredRules` is the reference: a fold over the destinations of what one whole pass computes, given the statuses of the entries. `PolicyIsDesired` first tries the current entries as the witness, then searches the statuses the ACL's entries can hold.
- **`MCACLReconciler`** defines the ACLs and the constants for TLC. The workers are model values, and they are symmetric.

## Runs

| Run | Config | Expect | What it shows |
|---|---|---|---|
| namer | `MCResourceNamer.cfg` | pass | Every name uses only `[a-z0-9.-]`. A name never exceeds `maxChars`, and is exactly `maxChars` when truncated (`NameLength`). 56k states. |
| namer_legal | `MCResourceNamer_legal.cfg` | violation | The key `"."` yields `"-<digest>"`, which is not a legal name. The same happens to `"a..b"` and to hosts with uppercase labels. |
| resolver | `MCTsuruAppAddress.cfg` | pass | One app with three addresses (h1 twice), 2 faults, 2 DNS changes, and the record deletable. The controller refines `AddressRecord` (`RefinesAddressRecord`): every IP written is an answer of its host since the pass's Get, no write goes back to an older Get, and every record that is not deleted becomes Ready. 32k states. |
| resolver_fresh | `MCTsuruAppAddress_fresh.cfg` | violation | With no faults and one DNS change, a Ready record keeps the old IPs (`EventuallyFresh`): nothing requeues it before the informer's resync. |
| acl | `MCACLReconciler.cfg` | pass | Two ACLs share the app `db`, with two workers, the record controller, 1 fault and 1 DNS change. Every stored policy equals `Stored(DesiredRules)` for some record statuses: no destination is dropped, the Service widening is present and the order is kept (`PolicyIsDesired`). 160k states. |
| acl_shapes | `MCACLReconciler_shapes.cfg` | pass | One worker, ACLs with every source and destination kind: a source with no selector (a3), wildcard and empty destinations (a4), an rpaas source with an rpaas and a DNS destination (a7). a1 may be deleted at any moment, mid-pass included. Its policy is then eventually gone for good (`DeletedPolicyCollected`). A pass that read the ACL before the deletion may still create it, but nothing recreates it after the collector. 64k states. |
| acl_allowall | `MCACLReconciler_allowall.cfg` | violation | An entry resolved to no IPs yields a rule with an empty `to`: allow-all on the ports (`NoAllowAllRule`). |
| acl_dns_race | `MCACLReconciler_dnsrace.cfg` | violation | No faults: a5 reads the entry a6 has just created before a6's sub-reconcile, and gets no egress twice. The second Unready outcome changes nothing and `setUnreadyStatus` does not requeue, so a5 gets no policy before the informer's resync (`EventuallyPolicy`). |
| acl_deleted | `MCACLReconciler_deleted.cfg` | violation | A deleted ACL is reconciled forever: the status write on the empty object fails and the error requeues the key (`DeletedForgotten`). |
| acl_ready | `MCACLReconciler_ready.cfg` | violation | The policy is created and the status write fails. Later passes see no change and skip the status write, so the ACL stays Unready while its passes succeed. |
| acl_update | `MCACLReconciler_update.cfg` | violation | An unchanged ACL is updated on every pass: the empty `Ports` of the IP rules never DeepEquals the stored nil. |

Every property of a passing run has a mutant in `PROJECT.json`: a plausible bug in the mapped code that TLC finds violating it. The mutants are:

- an uppercase digest;
- an off-by-one truncation;
- found IPs merged with the stored ones instead of replacing them;
- a dropped `svc == nil` check;
- a failed destination skipped instead of aborting the pass;
- an owner reference never set.

## Bounds and why they are enough

- **Faults.** One fault is enough to reach every error path of the ACL pass, because each is a single failing call. The resolver has two, so a failed lookup and a failed write can meet in one pass. The violation runs `acl_dns_race` and `acl_deleted` use none: what they show needs no failing call.
- **DNS changes.** Two changes in the resolver let its three lookups see up to three moments. h1 is looked up twice, so one pass can read h1 before and after a change. One change in the ACL runs gives the entries answers of different ages.
- **DNS entries.** One host shared by two ACLs is the smallest setting for the Create race, and for a pass reading the entry while another pass creates it.
- **Deletion.** One deletable record or ACL is enough: a deletion either precedes a pass or falls within one.
- **The acl run.** Two ACLs sharing one app are the smallest setting for the Create race. Two workers are the smallest setting for concurrent passes. More ACLs put the run past several minutes, so the other destination kinds are checked, with one worker, in `acl_shapes`.
- **The namer.** Keys up to 6 characters, with `maxChars` 5, reach both sides of the truncation boundary, including an empty sanitized prefix.

## Fairness

- controller-runtime keeps its workers running, so a started pass makes progress: weak fairness on each ACL worker's `PassStep`, and on the resolver's `CtlStep`.
- The ACL queue is FIFO, so a queued ACL is eventually taken even if workers are only free now and then: strong fairness on `Start` per ACL.
- The Kubernetes garbage collector keeps deleting the dependents of deleted owners: weak fairness on `CollectPolicy` per deletable ACL.
- The records' own controllers (`EntryCtl`) get no fairness. They are not in `src/`, and the properties are safety or, in `acl_dns_race`, violated without them.
- DNS changes, faults, creations and deletions are not fair, so they may stop.
- The informer's periodic resync (10 hours by default) is not modelled as an event. `EventuallyFresh` and `EventuallyPolicy` are therefore violated only up to that resync.

## Not modelled

- **The three record reconcilers used by ACLs** (`TsuruAppAddressReconciler`, `ACLDNSEntryReconciler`, `RpaasInstanceAddressReconciler`) are not under `src/`. They are modelled from spec 4.3 only, as one atomic step each (`EntryReconcile`). The shared entry actions are mapped to `ensureDNSEntry`'s lines, and the other two ensure functions are their twins.
- **The CIDR-suffix `continue` of `egressRulesForExternalDNS`.** Entry IPs come from `net.IP.String()` and always contain `.` or `:`, so it never fires.
- **External edits of the NetworkPolicy**, and the 10-minute requeue and the informer resync as separate events.
- **An abstract specification of the ACL reconciler.** Convergence to `DesiredRules` of the current records does not hold (see `resolver_fresh` and `acl_dns_race`), so there is no promise to refine beyond `PolicyIsDesired`.
- **The service cache.** Its type is not under `src/`, and the cache is never refreshed. The IP-to-Service map is the constant `ServiceOf`.
- **Logging, JSON formatting of destinations in reasons, and time stamps** are left out. A reason is one of five classes.
