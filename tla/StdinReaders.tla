---------------------------- MODULE StdinReaders ----------------------------
(* gmp/call_rawsyscall.go: ThreadCount goroutines make sure that standard    *)
(* input blocks, read it with a raw system call (each read occupies an OS    *)
(* thread) and send on a buffered channel. main receives one message more    *)
(* than there are senders, beside an HTTP server for the profiler. A         *)
(* goroutine that panics ends the program; the runtime ends it when nothing  *)
(* is left that could wake main.                                             *)
EXTENDS Integers, FiniteSets

CONSTANTS ThreadCount, \* 9900 in the code
          BunkSize,    \* 4096 in the code: the most one read takes
          MaxBytes     \* bound: bytes that arrive at standard input

ASSUME StdinCountsAssumption ==
  ThreadCount \in Nat \ {0} /\ BunkSize \in Nat \ {0} /\ MaxBytes \in Nat

VARIABLES status,   \* the program: "running" "panic" "deadlock" "returned"
          server,   \* ListenAndServe: "starting" "serving" "failed"
          started,  \* goroutines started
          rpc,      \* each goroutine: "idle" "check" "read" "send" "end"
          ch,       \* messages in the channel
          received, \* messages main has taken
          mode,     \* standard input: "block" "nonblock" "closed"
          waiting,  \* bytes waiting in it
          eof,      \* its last writer is gone
          arrived   \* bytes that ever came

world == <<mode, waiting, eof, arrived>>
stdinVars == <<status, server, started, rpc, ch, received, world>>

Threads == 1..ThreadCount

StdinTypeOK ==
  /\ status \in {"running", "panic", "deadlock", "returned"}
  /\ server \in {"starting", "serving", "failed"}
  /\ started \in 0..ThreadCount
  /\ rpc \in [Threads -> {"idle", "check", "read", "send", "end"}]
  /\ ch \in 0..ThreadCount /\ received \in 0..(ThreadCount + 1)
  /\ mode \in {"block", "nonblock", "closed"} /\ eof \in BOOLEAN
  /\ arrived \in 0..MaxBytes /\ waiting \in 0..arrived

StdinInit ==
  /\ status = "running" /\ server = "starting" /\ started = 0
  /\ rpc = [t \in Threads |-> "idle"]
  /\ ch = 0 /\ received = 0
  /\ mode \in {"block", "nonblock", "closed"}
  /\ waiting = 0 /\ eof = FALSE /\ arrived = 0

---------------------------------------------------------------------------

Listen ==
  /\ server = "starting" /\ server' \in {"serving", "failed"}
  /\ UNCHANGED <<status, started, rpc, ch, received, world>>

Start ==
  /\ started < ThreadCount
  /\ started' = started + 1
  /\ rpc' = [rpc EXCEPT ![started + 1] = "check"]
  /\ UNCHANGED <<status, server, ch, received, world>>

\* isNonBlock: fcntl fails on a closed descriptor.
Check(t) ==
  /\ rpc[t] = "check"
  /\ IF mode = "block"
       THEN rpc' = [rpc EXCEPT ![t] = "read"] /\ UNCHANGED status
       ELSE status' = "panic" /\ UNCHANGED rpc
  /\ UNCHANGED <<server, started, ch, received, world>>

ReadOrReturn(t) ==  \* Mutant: an error is printed and the goroutine returns.
  /\ rpc[t] = "read"
  /\ mode = "nonblock" \/ waiting > 0 \/ eof
  /\ waiting' = IF waiting < BunkSize THEN 0 ELSE waiting - BunkSize
  /\ rpc' = [rpc EXCEPT ![t] = IF waiting > 0 \/ eof THEN "send" ELSE "end"]
  /\ UNCHANGED <<status, server, started, ch, received, mode, eof, arrived>>

ReadAgain(t) ==  \* Mutant: reads until it gets something.
  /\ rpc[t] = "read"
  /\ mode = "nonblock" \/ waiting > 0 \/ eof
  /\ waiting' = IF waiting < BunkSize THEN 0 ELSE waiting - BunkSize
  /\ rpc' = [rpc EXCEPT ![t] = IF waiting > 0 THEN "send" ELSE "read"]
  /\ UNCHANGED <<status, server, started, ch, received, mode, eof, arrived>>

\* The read comes up to 20 seconds after the check, and the mode belongs to
\* everybody who shares the terminal. An error is printed, like a count.
Read(t) ==
  /\ rpc[t] = "read"
  /\ mode = "nonblock" \/ waiting > 0 \/ eof
  /\ waiting' = IF waiting < BunkSize THEN 0 ELSE waiting - BunkSize
  /\ rpc' = [rpc EXCEPT ![t] = "send"]
  /\ UNCHANGED <<status, server, started, ch, received, mode, eof, arrived>>

Send(t) ==
  /\ rpc[t] = "send" /\ ch < ThreadCount
  /\ ch' = ch + 1
  /\ rpc' = [rpc EXCEPT ![t] = "end"]
  /\ UNCHANGED <<status, server, started, received, world>>

Receive ==
  /\ started = ThreadCount /\ ch > 0
  /\ ch' = ch - 1 /\ received' = received + 1
  /\ status' = IF received' = ThreadCount + 1 THEN "returned" ELSE status
  /\ UNCHANGED <<server, started, rpc, world>>

\* The runtime: a goroutine inside a system call or a listener may still wake somebody.
AllAsleep ==
  /\ server = "failed" /\ started = ThreadCount /\ ch = 0
  /\ \A t \in Threads : rpc[t] = "end"
  /\ status' = "deadlock"
  /\ UNCHANGED <<server, started, rpc, ch, received, world>>

\* Standard input, from outside.
Type ==
  /\ mode # "closed" /\ ~eof /\ arrived < MaxBytes
  /\ arrived' = arrived + 1 /\ waiting' = waiting + 1
  /\ UNCHANGED <<status, server, started, rpc, ch, received, mode, eof>>

HangUp ==
  /\ mode # "closed" /\ ~eof /\ eof' = TRUE
  /\ UNCHANGED <<status, server, started, rpc, ch, received, mode, waiting, arrived>>

SetMode ==
  /\ mode # "closed" /\ mode' \in {"block", "nonblock"} \ {mode}
  /\ UNCHANGED <<status, server, started, rpc, ch, received, waiting, eof, arrived>>

Thread(t) == Check(t) \/ Read(t) \/ Send(t)
Program == Listen \/ Start \/ Receive \/ AllAsleep \/ \E t \in Threads : Thread(t)

StdinNext == status = "running" /\ (Program \/ Type \/ HangUp \/ SetMode)

StdinSpec == StdinInit /\ [][StdinNext]_stdinVars

---------------------------------------------------------------------------
(* Properties *)

\* Every goroutine accounts for one message, sent, waiting or received; so main's
\* last receive is there to wait for ever, and while the profiler is being
\* served the program does not end but by a panic; the runtime gives it up only
\* after every message has been received.
OneMessageEach ==
  /\ received + ch = Cardinality({t \in Threads : rpc[t] = "end"})
  /\ server = "serving" => status \in {"running", "panic"}
  /\ status = "deadlock" => received = ThreadCount

\* Without a listener, and with the end of input reached, the program does not
\* hang: the runtime (or a panic) ends it.
EndsWithoutListener == (server = "failed" /\ eof) ~> status # "running"
=============================================================================
