------------------------------ MODULE LinkPlans ------------------------------
(***************************************************************************)
(* The library's symlinks and what the backup service does to them: the    *)
(* link check that records them in a manifest, the restore plan and its    *)
(* application, the cleanup of dead links, and the automatic re-creation   *)
(* of links that an Arr's file list says are missing.  A plan is made      *)
(* from a manifest, kept, and applied later, path by path, while an Arr    *)
(* goes on writing the same folders and entries come and go.               *)
(***************************************************************************)
EXTENDS Naturals, FiniteSets

CONSTANTS Paths,    \* paths of the library
          Entries,  \* entries a link may lead to
          Limit,    \* links autoRecreate makes at most
          MaxWrites \* what the Arr and the database do

VARIABLES fs,        \* each path: nothing, a file, or a link and when the Arr made it
          entries,   \* entries in the database
          manifest,  \* the last link check: path -> entry, on the paths that were links
          snapshot,  \* the manifest of the newest snapshot
          plan,      \* the plan to apply: [kind, rows]
          rest,      \* rows of the plan being applied and not done yet
          seen,      \* the row being retargeted: its path was seen to be a link
          restored,  \* a link restore was applied once (links-restore-applied.json)
          writes,
          lost       \* paths where what the Arr wrote after the plan was made is gone

linkvars == <<fs, entries, manifest, snapshot, plan, rest, seen, restored, writes, lost>>

Nothing == [kind |-> "none", to |-> "none", at |-> 0]
File == [kind |-> "file", to |-> "none", at |-> 0]
Link(e, n) == [kind |-> "link", to |-> e, at |-> n]
IsLink(x) == x.kind = "link"
NoPlan == [kind |-> "none", rows |-> <<>>, at |-> 0]

On(f) == {p \in Paths : IsLink(f[p])}

InitLinks ==
  /\ fs \in [Paths -> {Nothing} \cup {Link(e, 0) : e \in Entries}]
  /\ entries = Entries /\ manifest = <<>> /\ snapshot = <<>>
  /\ plan = NoPlan /\ rest = {} /\ seen = {} /\ restored \in BOOLEAN /\ writes = 0 /\ lost = {}

-----------------------------------------------------------------------------
(* BuildManifest walks the roots and records every symlink with its        *)
(* target; a job's snapshot stores the manifest.                           *)
BuildManifest ==
  /\ plan = NoPlan
  /\ manifest' = [p \in On(fs) |-> fs[p].to]
  /\ UNCHANGED <<fs, entries, snapshot, plan, rest, seen, restored, writes, lost>>

Snapshot ==
  /\ DOMAIN manifest # {} /\ snapshot' = manifest
  /\ UNCHANGED <<fs, entries, manifest, plan, rest, seen, restored, writes, lost>>

(* BuildLinkPlan classifies each recorded row against what is on the path  *)
(* now; a row whose entry is gone is unresolved.                           *)
Class(p, e) ==
  CASE fs[p] = File                      -> "conflict"
    [] fs[p] = Nothing                      -> IF e \in entries THEN "create" ELSE "unresolved"
    [] IsLink(fs[p]) /\ fs[p].to = e       -> "ok"
    [] OTHER                               -> IF e \in entries THEN "retarget" ELSE "unresolved"

PlanRestore ==
  /\ plan = NoPlan /\ DOMAIN snapshot # {}
  /\ plan' = [kind |-> "restore", at |-> writes,
              rows |-> [p \in DOMAIN snapshot |-> [to |-> snapshot[p], class |-> Class(p, snapshot[p])]]]
  /\ rest' = DOMAIN snapshot
  /\ UNCHANGED <<fs, entries, manifest, snapshot, seen, restored, writes, lost>>

(* BuildCleanupPlan takes the rows the last check found dead. *)
PlanCleanup ==
  /\ plan = NoPlan
  /\ LET dead == {p \in DOMAIN manifest : manifest[p] \notin entries}
     IN /\ dead # {}
        /\ plan' = [kind |-> "cleanup", at |-> writes,
                    rows |-> [p \in dead |-> [to |-> manifest[p], class |-> "remove"]]]
        /\ rest' = dead
  /\ UNCHANGED <<fs, entries, manifest, snapshot, seen, restored, writes, lost>>

(* autoRecreate: the paths an Arr misses that the newest snapshot knew     *)
(* live, when a link restore has been applied before and they are few.     *)
AutoRecreate ==
  /\ plan = NoPlan /\ restored
  /\ \E missing \in SUBSET {p \in DOMAIN snapshot : Class(p, snapshot[p]) = "create"} :
       /\ missing # {} /\ Cardinality(missing) <= Limit
       /\ plan' = [kind |-> "auto", at |-> writes,
                   rows |-> [p \in missing |-> [to |-> snapshot[p], class |-> "create"]]]
       /\ rest' = missing
  /\ UNCHANGED <<fs, entries, manifest, snapshot, seen, restored, writes, lost>>

-----------------------------------------------------------------------------
(* What the Arr wrote after the plan was made, and the plan does not know. *)
Newer(p) == IsLink(fs[p]) /\ fs[p].at > plan.at /\ fs[p].to # plan.rows[p].to

Becomes(p, x) == /\ fs' = [fs EXCEPT ![p] = x]
                 /\ lost' = IF fs[p] = File \/ Newer(p) THEN lost \cup {p} ELSE lost

Done(p) == rest' = rest \ {p}

(* A link made under a temporary name and renamed over the path. *)
CreateOver(p) ==
  /\ p \in rest /\ plan.rows[p].class = "create"
  /\ Becomes(p, Link(plan.rows[p].to, 0)) /\ restored' = (plan.kind = "restore" \/ restored)
  /\ Done(p)
  /\ UNCHANGED <<entries, manifest, snapshot, plan, seen, writes>>

(* symlink(2) fails on a path that exists.  A user may ask for the links   *)
(* whose entry is gone as well.                                            *)
ApplyCreate(p) ==
  /\ p \in rest /\ plan.rows[p].class \in {"create", "unresolved"}
  /\ IF fs[p] = Nothing THEN Becomes(p, Link(plan.rows[p].to, 0)) /\ restored' = (plan.kind = "restore" \/ restored)
     ELSE UNCHANGED <<fs, lost, restored>>
  /\ Done(p)
  /\ UNCHANGED <<entries, manifest, snapshot, plan, seen, writes>>

(* A retarget, which the user asks for, looks first and then renames a new *)
(* link over the old one.                                                  *)
RetargetLooks(p) ==
  /\ p \in rest /\ plan.rows[p].class = "retarget" /\ p \notin seen
  /\ \/ IsLink(fs[p]) /\ seen' = seen \cup {p} /\ UNCHANGED rest
     \/ Done(p) /\ UNCHANGED seen
  /\ UNCHANGED <<fs, entries, manifest, snapshot, plan, restored, writes, lost>>

Retarget(p) ==
  /\ p \in rest \cap seen
  /\ fs' = [fs EXCEPT ![p] = Link(plan.rows[p].to, 0)]
  /\ restored' = TRUE /\ seen' = seen \ {p} /\ Done(p)
  /\ UNCHANGED <<entries, manifest, snapshot, plan, writes, lost>>

(* Rows that are fine, in conflict or unresolved are passed over. *)
ApplyNothing(p) ==
  /\ p \in rest /\ plan.rows[p].class \in {"ok", "conflict", "unresolved"}
  /\ Done(p)
  /\ UNCHANGED <<fs, entries, manifest, snapshot, plan, seen, restored, writes, lost>>

(* ApplyCleanup removes a path only while it is a symlink to the target    *)
(* the plan was made for.                                                  *)
ApplyRemove(p) ==
  /\ p \in rest /\ plan.rows[p].class = "remove"
  /\ IF IsLink(fs[p]) /\ fs[p].to = plan.rows[p].to
     THEN Becomes(p, Nothing) /\ manifest' = [q \in DOMAIN manifest \ {p} |-> manifest[q]]
     ELSE UNCHANGED <<fs, lost, manifest>>
  /\ Done(p)
  /\ UNCHANGED <<entries, snapshot, plan, seen, restored, writes>>

PlanEnds ==
  /\ plan # NoPlan /\ rest = {}
  /\ plan' = NoPlan
  /\ UNCHANGED <<fs, entries, manifest, snapshot, rest, seen, restored, writes, lost>>

-----------------------------------------------------------------------------
(* The Arr imports over a path, or removes what is there; an entry is      *)
(* deleted or comes back.                                                  *)
ArrWrites(p) ==
  /\ writes < MaxWrites /\ writes' = writes + 1
  /\ \E x \in {Nothing, File} \cup {Link(e, writes + 1) : e \in entries} : fs' = [fs EXCEPT ![p] = x]
  /\ UNCHANGED <<entries, manifest, snapshot, plan, rest, seen, restored, lost>>

EntryChanges(e) ==
  /\ writes < MaxWrites /\ writes' = writes + 1
  /\ entries' = IF e \in entries THEN entries \ {e} ELSE entries \cup {e}
  /\ UNCHANGED <<fs, manifest, snapshot, plan, rest, seen, restored, lost>>

NextLinks ==
  \/ BuildManifest \/ Snapshot \/ PlanRestore \/ PlanCleanup \/ AutoRecreate \/ PlanEnds
  \/ \E p \in Paths : \/ ApplyCreate(p) \/ RetargetLooks(p) \/ Retarget(p) \/ ApplyNothing(p)
                      \/ ApplyRemove(p) \/ ArrWrites(p)
  \/ \E e \in Entries : EntryChanges(e)

SpecLinks == InitLinks /\ [][NextLinks]_linkvars

-----------------------------------------------------------------------------
(* Whatever the Arr put on a path after a plan was made is left alone by   *)
(* the plan: a restore or an automatic re-creation takes only paths that   *)
(* are free, and a cleanup removes only the link it was made for (the same *)
(* target).  The retarget a user asks for is the exception.                *)
ArrFileStays == lost = {}
=============================================================================
