------------------------------ MODULE JitCache ------------------------------
(***************************************************************************)
(* The store-local cache of native code (runtime/jit/cache.rs) and the two  *)
(* per-function slots of the store that shortcut it: the rejected flag and  *)
(* the weak reference to the code that ran last (common/store.rs).          *)
(*                                                                          *)
(* The clock only orders entries by their last use, so the entries are kept *)
(* in that order.  Every caller holds the store's lease, so a look-up that  *)
(* compiles is one step.                                                    *)
(***************************************************************************)
EXTENDS Naturals, Sequences, FiniteSets, Functions

CONSTANTS
  Funcs,     \* the functions of the store
  Size,      \* bytes of each function's executable mapping
  MaxBytes,  \* JitConfig::code_cache_max_bytes
  Broken     \* functions the backend cannot verify or emit

ASSUME JitCacheAssumption ==
  /\ Size \in [Funcs -> Nat \ {0}]
  /\ MaxBytes \in Nat
  /\ Broken \subseteq Funcs

VARIABLES
  lru,        \* compiled functions, least recently used first: [fn, id]
  used_bytes,
  disabled,   \* StoreJitCacheInner.disabled
  rejected,   \* StoreInner.jit_rejected_funcs
  weak        \* StoreInner.jit_compiled_funcs: the id of the last code, or 0

cacheVars == <<lru, used_bytes, disabled, rejected, weak>>

NoCode == [fn |-> "none", id |-> 0]

CacheInit ==
  /\ lru = <<>> /\ used_bytes = 0
  /\ disabled = {} /\ rejected = {}
  /\ weak = [f \in Funcs |-> 0]

Total(s) ==
  LET upto[n \in 0..Len(s)] == IF n = 0 THEN 0 ELSE upto[n - 1] + Size[s[n].fn]
  IN upto[Len(s)]
Cached(f) == {c \in Range(lru) : c.fn = f}
Without(s, i) == [k \in 1..(Len(s) - 1) |-> s[IF k < i THEN k ELSE k + 1]]
Touched(c) == IF c \in Range(lru)
              THEN Append(Without(lru, CHOOSE i \in DOMAIN lru : lru[i] = c), c)
              ELSE lru

\* The weak slot is upgraded while its code is alive: cached, or held by a
\* native activation.  touch_compiled then refuses code the cache has replaced
\* or evicted.  Mutation: whatever can be upgraded is entered.
UpgradeOnly(f, held) == {c \in Range(lru) \cup held : c.fn = f /\ c.id = weak[f]}
FrameHit(f, held) == {c \in Cached(f) : c.id = weak[f]}

\* evict_until: how many of the least recently used entries are dropped until
\* at most target bytes are used.  Mutation: entries go while the cache is over
\* its limit, and the function about to be inserted is not counted.
EvictToMax(target) == IF used_bytes > MaxBytes THEN 1 ELSE 0
EvictUntil(target) ==
  LET fits == {k \in 0..Len(lru) : used_bytes - Total(SubSeq(lru, 1, k)) <= target}
  IN CHOOSE k \in fits : \A o \in fits : k <= o

\* A new mapping differs from all that are alive or still named by a weak slot.
FreshId(f, held) ==
  LET taken == {weak[f]} \cup {c.id : c \in {d \in Range(lru) \cup held : d.fn = f}}
      free == 1..(Cardinality(taken) + 1) \ taken
  IN CHOOSE n \in free : \A o \in free : n <= o

Contents(s, u, c) ==
  [lru |-> s, used |-> u, disabled |-> disabled, rejected |-> rejected, code |-> c]

\* mark_jit_rejected_func, whose reset of the weak slot is in Slots, and
\* mark_rejected.
Reject(f, r) == [r EXCEPT !.disabled = @ \cup {f}, !.rejected = @ \cup {f}]

\* get_or_compile; mapped says whether the operating system grants the mapping.
GetOrCompile(f, held, mapped) ==
  LET k    == EvictUntil(MaxBytes - Size[f])
      kept == SubSeq(lru, k + 1, Len(lru))
      left == used_bytes - Total(SubSeq(lru, 1, k))
      new  == [fn |-> f, id |-> FreshId(f, held)]
  IN
  IF MaxBytes = 0 \/ f \in disabled THEN Contents(lru, used_bytes, NoCode)
  ELSE IF Cached(f) # {}
  THEN LET c == CHOOSE c \in Cached(f) : TRUE IN Contents(Touched(c), used_bytes, c)
  ELSE IF f \in Broken \/ Size[f] > MaxBytes
  THEN Reject(f, Contents(lru, used_bytes, NoCode))
  ELSE IF mapped THEN Contents(Append(kept, new), left + Size[f], new)
  ELSE Reject(f, Contents(kept, left, NoCode))

\* The code enter_current_frame_raw runs for f, or NoCode.
Obtain(f, held, mapped) ==
  LET hit == FrameHit(f, held) IN
  IF hit # {} THEN LET c == CHOOSE c \in hit : TRUE IN Contents(Touched(c), used_bytes, c)
  ELSE GetOrCompile(f, held, mapped)

\* The weak slots after the answer r: a rejection empties the function's slot.
Slots(r) ==
  IF r.code = NoCode THEN [f \in Funcs |-> IF f \in r.rejected THEN 0 ELSE weak[f]]
  ELSE [weak EXCEPT ![r.code.fn] = r.code.id]

\* The cache after it answered with r.
Answer(r) ==
  /\ lru' = r.lru
  /\ used_bytes' = r.used
  /\ disabled' = r.disabled
  /\ rejected' = r.rejected
  /\ weak' = Slots(r)

-----------------------------------------------------------------------------
(* What the cache keeps true *)

Mapping == [fn : Funcs, id : Nat \ {0}]

\* A function is cached at most once.
OncePerFn(s) == \A i, j \in DOMAIN s : s[i].fn = s[j].fn => i = j

\* The contents of the cache s with u bytes used agree with the rejected
\* functions d and e.
Sound(s, u, d, e) ==
  /\ s \in Seq(Mapping) /\ OncePerFn(s)
  /\ u = Total(s) /\ u <= MaxBytes
  /\ d = e /\ d \subseteq Funcs
  /\ \A i \in DOMAIN s : s[i].fn \notin d

CacheInv == Sound(lru, used_bytes, disabled, rejected) /\ weak \in [Funcs -> Nat]

\* An answer of the cache for f: the cache stays sound, and the code it names is
\* code of f that it holds and knows as used last.
Good(r, f) ==
  /\ Sound(r.lru, r.used, r.disabled, r.rejected)
  /\ \/ r.code = NoCode
     \/ /\ r.code \in Mapping /\ r.code.fn = f
        /\ r.lru # <<>> /\ r.lru[Len(r.lru)] = r.code
=============================================================================
