---------------------------- MODULE PolicyCache -----------------------------
(***************************************************************************)
(* The reminder policy of one school: a column of the database and a key   *)
(* of Redis in front of it (domain/policy_service.py).                     *)
(*                                                                         *)
(*   load_policy   GET; on a miss or an error SELECT, then SETEX    (Load) *)
(*   save_policy   UPDATE and COMMIT, then DELETE                   (Save) *)
(*                                                                         *)
(* Nothing orders the DELETE of a save and the SETEX of a load that read   *)
(* before it.  Errors of Redis are swallowed on both sides.  A policy is   *)
(* its version; version 0 is "not set", which is answered with the default *)
(* and never cached.  The audit entry that ends a save is left out:        *)
(* nothing reads it.                                                       *)
(***************************************************************************)
EXTENDS Integers

CONSTANTS
    Readers,        \* concurrent calls of load_policy
    Savers,         \* concurrent calls of save_policy
    CacheTtl,       \* CACHE_TTL, in ticks of the clock
    MaxSaves        \* bound: saves

ASSUME CacheAssumption ==
    /\ CacheTtl \in Nat \ {0}
    /\ MaxSaves \in Nat

VARIABLES
    policy,         \* the committed version of schools.reminder_policy
    cache,          \* the key school:N:policy: [version, ttl, excused]
    reader,         \* reader[r]: [step, version, overtaken]
    saver           \* saver[s]: "idle", or "committed" before its DELETE

cacheVars == <<policy, cache, reader, saver>>

-----------------------------------------------------------------------------
\* ttl = 0: there is no key.  excused is a ghost: a reason for the version to be old.
NoKey == [version |-> 0, ttl |-> 0, excused |-> FALSE]
CacheKey == [version : 0..MaxSaves, ttl : 0..CacheTtl, excused : BOOLEAN]

\* overtaken is a ghost: a save committed after this load's SELECT.
NoLoad == [step |-> "idle", version |-> 0, overtaken |-> FALSE]

CacheTypeOK ==
    /\ policy \in 0..MaxSaves
    /\ cache \in CacheKey
    /\ reader \in [Readers -> [step : {"idle", "fill"}, version : 0..MaxSaves,
                               overtaken : BOOLEAN]]
    /\ saver \in [Savers -> {"idle", "committed"}]

CacheInit ==
    /\ policy = 0
    /\ cache = NoKey
    /\ reader = [r \in Readers |-> NoLoad]
    /\ saver = [s \in Savers |-> "idle"]

-----------------------------------------------------------------------------
(* load_policy.                                                            *)

\* Mutant of LoadHit: every use prolongs the life of the key.
LoadHitTouch(r) ==
    /\ reader[r].step = "idle"
    /\ cache.ttl > 0
    /\ cache' = [cache EXCEPT !.ttl = CacheTtl]
    /\ UNCHANGED <<policy, reader, saver>>

\* GET finds the key; its version is the answer.
LoadHit(r) ==
    /\ reader[r].step = "idle"
    /\ cache.ttl > 0
    /\ UNCHANGED cacheVars

\* GET finds nothing, or fails: SELECT.  A policy that is not set ends the load.
LoadSelect(r) ==
    /\ reader[r].step = "idle"
    /\ policy # 0
    /\ reader' = [reader EXCEPT ![r] =
          [step |-> "fill", version |-> policy, overtaken |-> FALSE]]
    /\ UNCHANGED <<policy, cache, saver>>

\* SETEX.
LoadFill(r) ==
    /\ reader[r].step = "fill"
    /\ cache' = [version |-> reader[r].version, ttl |-> CacheTtl,
                 excused |-> reader[r].overtaken]
    /\ reader' = [reader EXCEPT ![r] = NoLoad]
    /\ UNCHANGED <<policy, saver>>

\* SETEX fails, or the process dies.
LoadNoFill(r) ==
    /\ reader[r].step = "fill"
    /\ reader' = [reader EXCEPT ![r] = NoLoad]
    /\ UNCHANGED <<policy, cache, saver>>

-----------------------------------------------------------------------------
(* save_policy.                                                            *)

Overtaken(read) == [step |-> read.step, version |-> read.version,
                    overtaken |-> read.step = "fill"]

\* Mutant of SaveCommit: the key is deleted before the transaction, not after it.
SaveCommitLast(s) ==
    /\ saver[s] = "idle"
    /\ policy < MaxSaves
    /\ policy' = policy + 1
    /\ reader' = [r \in Readers |-> Overtaken(reader[r])]
    /\ UNCHANGED <<cache, saver>>

\* UPDATE and COMMIT.
SaveCommit(s) ==
    /\ saver[s] = "idle"
    /\ policy < MaxSaves
    /\ policy' = policy + 1
    /\ reader' = [r \in Readers |-> Overtaken(reader[r])]
    /\ saver' = [saver EXCEPT ![s] = "committed"]
    /\ UNCHANGED cache

\* DELETE.
SaveDelete(s) ==
    /\ saver[s] = "committed"
    /\ cache' = NoKey
    /\ saver' = [saver EXCEPT ![s] = "idle"]
    /\ UNCHANGED <<policy, reader>>

Excuse(key) == [version |-> key.version, ttl |-> key.ttl, excused |-> key.ttl > 0]

\* DELETE fails, or the process dies before it.
SaveNoDelete(s) ==
    /\ saver[s] = "committed"
    /\ cache' = Excuse(cache)
    /\ saver' = [saver EXCEPT ![s] = "idle"]
    /\ UNCHANGED <<policy, reader>>

-----------------------------------------------------------------------------
CacheStep ==
    \/ \E r \in Readers : LoadHit(r) \/ LoadSelect(r) \/ LoadFill(r) \/ LoadNoFill(r)
    \/ \E s \in Savers : SaveCommit(s) \/ SaveDelete(s) \/ SaveNoDelete(s)

\* One tick of the clock, as Redis counts it.
Aged(key) ==
    IF key.ttl <= 1 THEN NoKey
    ELSE [version |-> key.version, ttl |-> key.ttl - 1, excused |-> key.excused]

-----------------------------------------------------------------------------
(* Properties.                                                             *)

Stale == cache.ttl > 0 /\ cache.version # policy

\* The cache holds an outdated policy only while the save that replaced it has yet
\* to delete the key, or if that delete was lost, a load read before that save and
\* wrote after it, or a restart brought the key back (policy_service.py:86-115, 135-143).
StaleIsExcused ==
    Stale => cache.excused \/ \E s \in Savers : saver[s] = "committed"

\* However a policy that was replaced got into the cache, it does not stay there:
\* the time to live runs from the SETEX, and uses do not prolong it
\* (policy_service.py:75, 104-111).
StaleExpires == Stale ~> ~Stale
=============================================================================
