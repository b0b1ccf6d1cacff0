---------------------------- MODULE ConfigValue ----------------------------
(* std_pkg/sync/atomic/value.go: a configuration map published through an    *)
(* atomic.Value. One goroutine copies the current map, adds a key to the     *)
(* copy and stores the copy; the others load whatever map is current and     *)
(* print it key by key. Nobody takes a lock, and Go maps may not be read     *)
(* while they are written: what makes the program correct is that a map is   *)
(* never written once it has been stored.                                    *)
(*                                                                           *)
(* A map is an address of the heap holding a set of keys (key and value are  *)
(* the same string in the code). The garbage collector hands an address out  *)
(* again as soon as no goroutine can reach it. MaxWrites bounds the writer's *)
(* endless loop; the pauses are steps not taken.                             *)
EXTENDS Integers, FiniteSets

CONSTANTS Readers,    \* the ten printing goroutines
          Addr,       \* heap addresses that can hold a map
          MaxWrites   \* bound: keys the writer adds before it rests for ever

ASSUME MaxWritesAssumption == MaxWrites \in Nat

\* Without an address to spare for every goroutine the writer would run out of memory.
ASSUME AddrAssumption ==
  /\ IsFiniteSet(Readers) /\ IsFiniteSet(Addr)
  /\ Cardinality(Addr) >= Cardinality(Readers) + 2

VARIABLES maps,      \* contents of the heap
          config,    \* the atomic.Value: address of the current map
          wpc,       \* the writer: "load" "copy" "store"
          originCfg, \* the map it copies from
          newCfg,    \* the map it fills
          i,         \* the next key
          rpc,       \* each reader: "load" "range"
          cfg,       \* the map it prints
          info,      \* the keys it has put into its text so far
          printed    \* history: the last text it printed

vars == <<maps, config, wpc, originCfg, newCfg, i, rpc, cfg, info, printed>>
writerVars == <<config, wpc, originCfg, newCfg, i>>
readerVars == <<rpc, cfg, info, printed>>

Keys == 0..(MaxWrites - 1)

TypeOK ==
  /\ maps \in [Addr -> SUBSET Keys]
  /\ {config, originCfg, newCfg} \subseteq Addr
  /\ wpc \in {"load", "copy", "store"}
  /\ i \in 0..MaxWrites
  /\ rpc \in [Readers -> {"load", "range"}]
  /\ cfg \in [Readers -> Addr]
  /\ info \in [Readers -> SUBSET Keys]
  /\ printed \in [Readers -> SUBSET Keys]

Init ==
  /\ maps = [a \in Addr |-> {}]
  /\ config \in Addr
  /\ wpc = "load" /\ originCfg = config /\ newCfg = config
  /\ i = 0
  /\ rpc = [g \in Readers |-> "load"]
  /\ cfg = [g \in Readers |-> config]
  /\ info = [g \in Readers |-> {}]
  /\ printed = [g \in Readers |-> {}]

\* What the garbage collector keeps when the writer allocates (it holds nothing then).
Reachable == {config} \cup {cfg[g] : g \in {h \in Readers : rpc[h] = "range"}}

---------------------------------------------------------------------------
(* The writer. *)

WriterLoadAlias ==  \* Mutant: newCfg := originCfg, an assignment instead of a copy.
  /\ wpc = "load" /\ i < MaxWrites
  /\ originCfg' = config /\ newCfg' = config
  /\ wpc' = "copy"
  /\ UNCHANGED <<maps, config, i, readerVars>>

WriterLoadStore ==  \* Mutant: the new map is stored when it is made.
  /\ wpc = "load" /\ i < MaxWrites
  /\ originCfg' = config
  /\ \E a \in Addr \ Reachable :
        newCfg' = a /\ maps' = [maps EXCEPT ![a] = {}] /\ config' = a
  /\ wpc' = "copy"
  /\ UNCHANGED <<i, readerVars>>

WriterLoad ==
  /\ wpc = "load" /\ i < MaxWrites
  /\ originCfg' = config
  /\ \E a \in Addr \ Reachable :
        newCfg' = a /\ maps' = [maps EXCEPT ![a] = {}]
  /\ wpc' = "copy"
  /\ UNCHANGED <<config, i, readerVars>>

CopyKey ==
  /\ wpc = "copy"
  /\ \E key \in maps[originCfg] \ maps[newCfg] :
        maps' = [maps EXCEPT ![newCfg] = @ \cup {key}]
  /\ UNCHANGED <<writerVars, readerVars>>

AddKeyTwice ==  \* Mutant: the counter is advanced twice.
  /\ wpc = "copy" /\ maps[originCfg] \subseteq maps[newCfg]
  /\ maps' = [maps EXCEPT ![newCfg] = @ \cup {i}]
  /\ i' = i + 2
  /\ wpc' = "store"
  /\ UNCHANGED <<config, originCfg, newCfg, readerVars>>

AddKeyNoCopy ==  \* Mutant: the loop that copies is left out.
  /\ wpc = "copy"
  /\ maps' = [maps EXCEPT ![newCfg] = @ \cup {i}]
  /\ i' = i + 1
  /\ wpc' = "store"
  /\ UNCHANGED <<config, originCfg, newCfg, readerVars>>

AddKey ==
  /\ wpc = "copy" /\ maps[originCfg] \subseteq maps[newCfg]
  /\ maps' = [maps EXCEPT ![newCfg] = @ \cup {i}]
  /\ i' = i + 1
  /\ wpc' = "store"
  /\ UNCHANGED <<config, originCfg, newCfg, readerVars>>

WriterStore ==
  /\ wpc = "store"
  /\ config' = newCfg
  /\ wpc' = "load"
  /\ UNCHANGED <<maps, originCfg, newCfg, i, readerVars>>

Writer == WriterLoad \/ CopyKey \/ AddKey \/ WriterStore

---------------------------------------------------------------------------
(* The readers: range reads the map itself, in any order. *)

ReaderLoad(g) ==
  /\ rpc[g] = "load"
  /\ cfg' = [cfg EXCEPT ![g] = config]
  /\ info' = [info EXCEPT ![g] = {}]
  /\ rpc' = [rpc EXCEPT ![g] = "range"]
  /\ UNCHANGED <<maps, writerVars, printed>>

RangeKey(g) ==
  /\ rpc[g] = "range"
  /\ \E key \in maps[cfg[g]] \ info[g] :
        info' = [info EXCEPT ![g] = @ \cup {key}]
  /\ UNCHANGED <<maps, writerVars, rpc, cfg, printed>>

PrintCfgStale(g) ==  \* Mutant: the Load stands before the loop.
  /\ rpc[g] = "range" /\ maps[cfg[g]] \subseteq info[g]
  /\ printed' = [printed EXCEPT ![g] = info[g]]
  /\ info' = [info EXCEPT ![g] = {}]
  /\ UNCHANGED <<maps, writerVars, rpc, cfg>>

PrintCfg(g) ==
  /\ rpc[g] = "range" /\ maps[cfg[g]] \subseteq info[g]
  /\ printed' = [printed EXCEPT ![g] = info[g]]
  /\ rpc' = [rpc EXCEPT ![g] = "load"]
  /\ UNCHANGED <<maps, writerVars, cfg, info>>

Reader(g) == ReaderLoad(g) \/ RangeKey(g) \/ PrintCfg(g)

Next == Writer \/ \E g \in Readers : Reader(g)

\* Every goroutine keeps being scheduled and every Sleep ends.
Fairness == WF_vars(Writer) /\ \A g \in Readers : WF_vars(Reader(g))

Spec == Init /\ [][Next]_vars /\ Fairness

---------------------------------------------------------------------------
(* Properties *)

\* The map that a goroutine ranges over is never the one being written: the
\* runtime would end the program with "concurrent map iteration and map write".
NoConcurrentMapAccess ==
  wpc = "copy" => /\ newCfg # originCfg
                  /\ \A g \in Readers : rpc[g] = "range" => cfg[g] # newCfg

\* What a goroutine prints is a configuration that was current at some time: the
\* keys 0 .. n-1, none of them missing, never a half-copied map.
WholeSnapshots == \A g \in Readers : \E n \in 0..i : printed[g] = 0..(n - 1)

\* A goroutine never prints an older configuration than it printed before.
MonotonicReads == [][\A g \in Readers : printed[g] \subseteq printed'[g]]_vars

\* A key that is in the current configuration is printed in the end by everybody.
FreshReads ==
  \A g \in Readers, key \in Keys : key \in maps[config] ~> key \in printed[g]

=============================================================================
