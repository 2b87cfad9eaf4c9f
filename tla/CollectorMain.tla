--------------------------- MODULE CollectorMain ---------------------------
(***************************************************************************)
(* src/main.cpp: the process, its two signals, and the label the operator  *)
(* is asked for.  The collector is reduced to whether it records and       *)
(* whether its meta.yaml has its summary (DataCollector).                  *)
(*                                                                         *)
(* External: Linux delivers a signal sent to the process to the main       *)
(* thread; sleep_for() sleeps on after a handler; glibc's signal() sets    *)
(* SA_RESTART, so that a read() under way is restarted after the handler,  *)
(* and sigaction() here does not, so that it fails.  Keys typed before the *)
(* terminal leaves line mode stay in its buffer and are read afterwards.   *)
(***************************************************************************)
EXTENDS Naturals, Sequences

CONSTANTS MaxSignals,   \* bound: signals sent
          MaxKeys       \* bound: keys typed

ASSUME MainAssumption == MaxSignals \in Nat /\ MaxKeys \in Nat

VARIABLES pc,           \* where main() is; "exited", "killed"
          handler,      \* what a signal does: "default", "stop", "skip"
          stop,         \* g_stop
          stopSignal,   \* g_stop_signal, "none" for 0
          isTty,        \* isatty(STDIN_FILENO)
          tty,          \* "line", "raw"
          typed,        \* keys in the terminal's buffer
          session,      \* "none", "recording", "finalized"
          result,       \* prompt_result()'s result, "none" for an empty one
          label,        \* what write_result() appended
          signals, keys,   \* counted for the bounds
          termSeen      \* history: a SIGTERM was handled

flagVars == <<handler, stop, stopSignal>>
termVars == <<isTty, tty, typed>>
outcomeVars == <<session, result, label>>
envVars == <<signals, keys, termSeen>>
vars == <<pc, flagVars, termVars, outcomeVars, envVars>>

Signal == {"SIGINT", "SIGTERM"}
Key == {"s", "f", "other"}
InPrompt == {"sigaction", "tcgetattr", "before_read", "read", "restore"}
Recording == {"loop", "sleep"}

\* the types, and where the terminal may be raw
TypeOK ==
    /\ pc \in {"start", "signal_INT", "signal_TERM", "drain", "which", "isatty", "label",
               "exited", "killed"} \cup Recording \cup InPrompt
    /\ handler \in [Signal -> {"default", "stop", "skip"}]
    /\ stop \in BOOLEAN /\ stopSignal \in Signal \cup {"none"} /\ (stop <=> stopSignal # "none")
    /\ isTty \in BOOLEAN /\ tty \in {"line", "raw"} /\ typed \in Seq(Key)
    /\ session \in {"none", "recording", "finalized"}
    /\ {result, label} \subseteq {"none", "success", "fail"}
    /\ signals \in 0..MaxSignals /\ keys \in 0..MaxKeys
    /\ termSeen \in BOOLEAN

Init ==
    /\ pc = "start" /\ handler = [s \in Signal |-> "default"]
    /\ stop = FALSE /\ stopSignal = "none"
    /\ isTty \in BOOLEAN /\ tty = "line" /\ typed = <<>>
    /\ session = "none" /\ result = "none" /\ label = "none"
    /\ signals = 0 /\ keys = 0 /\ termSeen = FALSE

Goto(from, to) == pc = from /\ pc' = to
-----------------------------------------------------------------------------
(* The world outside *)

\* What the handler of sig does
Handle(sig) ==
    CASE handler[sig] = "default" -> pc' = "killed" /\ UNCHANGED <<stop, stopSignal>>
      [] handler[sig] = "stop" -> stop' = TRUE /\ stopSignal' = sig /\ UNCHANGED pc
      [] handler[sig] = "skip" -> /\ pc' = IF pc = "read" THEN "restore" ELSE pc
                                  /\ UNCHANGED <<stop, stopSignal>>

Send(sig) ==
    /\ pc \notin {"exited", "killed"} /\ signals < MaxSignals
    /\ Handle(sig)
    /\ signals' = signals + 1
    /\ termSeen' = (termSeen \/ (sig = "SIGTERM" /\ pc' # "killed"))
    /\ UNCHANGED <<handler, termVars, outcomeVars, keys>>

Type(k) ==
    /\ isTty /\ pc \notin {"exited", "killed"} /\ keys < MaxKeys
    /\ typed' = Append(typed, k) /\ keys' = keys + 1
    /\ UNCHANGED <<pc, flagVars, isTty, tty, outcomeVars, signals, termSeen>>
-----------------------------------------------------------------------------
(* main() up to the end of the recording *)

\* the configuration is loaded and DataCollector::start() succeeds
StartRecording ==
    /\ Goto("start", "signal_INT")
    /\ session' = "recording"
    /\ UNCHANGED <<flagVars, termVars, result, label, envVars>>

StartFails ==
    /\ Goto("start", "exited")
    /\ UNCHANGED <<flagVars, termVars, outcomeVars, envVars>>

InstallInt ==
    /\ Goto("signal_INT", "signal_TERM")
    /\ handler' = [handler EXCEPT !["SIGINT"] = "stop"]
    /\ UNCHANGED <<stop, stopSignal, termVars, outcomeVars, envVars>>

InstallTerm ==
    /\ Goto("signal_TERM", "loop")
    /\ handler' = [handler EXCEPT !["SIGTERM"] = "stop"]
    /\ UNCHANGED <<stop, stopSignal, termVars, outcomeVars, envVars>>

\* Mutant: g_stop ends the program, not the recording.
TestStopExits ==
    /\ pc = "loop"
    /\ pc' = IF stop THEN "exited" ELSE "sleep"
    /\ UNCHANGED <<flagVars, termVars, outcomeVars, envVars>>

\* while (!g_stop)
TestStop ==
    /\ pc = "loop"
    /\ pc' = IF stop THEN "drain" ELSE "sleep"
    /\ UNCHANGED <<flagVars, termVars, outcomeVars, envVars>>

\* 100 ms, and once a second the report
SleepAndReport ==
    /\ Goto("sleep", "loop")
    /\ UNCHANGED <<flagVars, termVars, outcomeVars, envVars>>

\* collector.stop()
Drain ==
    /\ Goto("drain", "which")
    /\ session' = "finalized"
    /\ UNCHANGED <<flagVars, termVars, result, label, envVars>>

\* Mutant: the operator is asked whatever ended the recording.
AskAlways ==
    /\ Goto("which", "isatty")
    /\ UNCHANGED <<flagVars, termVars, outcomeVars, envVars>>

\* the last signal decides
Which ==
    /\ pc = "which"
    /\ pc' = IF stopSignal = "SIGINT" THEN "isatty" ELSE "exited"
    /\ UNCHANGED <<flagVars, termVars, outcomeVars, envVars>>
-----------------------------------------------------------------------------
(* prompt_result() *)

TestTty ==
    /\ pc = "isatty"
    /\ pc' = IF isTty THEN "sigaction" ELSE "label"
    /\ UNCHANGED <<flagVars, termVars, outcomeVars, envVars>>

InstallSkip ==
    /\ Goto("sigaction", "tcgetattr")
    /\ handler' = [handler EXCEPT !["SIGINT"] = "skip"]
    /\ UNCHANGED <<stop, stopSignal, termVars, outcomeVars, envVars>>

MakeRaw ==
    /\ Goto("tcgetattr", "before_read")
    /\ tty' = "raw"
    /\ UNCHANGED <<flagVars, isTty, typed, outcomeVars, envVars>>

TcgetattrFails ==
    /\ Goto("tcgetattr", "label")
    /\ UNCHANGED <<flagVars, termVars, outcomeVars, envVars>>

CallRead ==
    /\ Goto("before_read", "read")
    /\ UNCHANGED <<flagVars, termVars, outcomeVars, envVars>>

\* Mutant: a key that is no label leaves without restoring the terminal.
ReadKeyOnce ==
    /\ pc = "read" /\ typed # <<>>
    /\ typed' = Tail(typed)
    /\ result' = CASE Head(typed) = "s" -> "success" [] Head(typed) = "f" -> "fail" [] OTHER -> "none"
    /\ pc' = IF Head(typed) = "other" THEN "label" ELSE "restore"
    /\ UNCHANGED <<flagVars, isTty, tty, session, label, envVars>>

ReadKey ==
    /\ pc = "read" /\ typed # <<>>
    /\ typed' = Tail(typed)
    /\ result' = CASE Head(typed) = "s" -> "success" [] Head(typed) = "f" -> "fail" [] OTHER -> "none"
    /\ pc' = IF Head(typed) = "other" THEN "before_read" ELSE "restore"
    /\ UNCHANGED <<flagVars, isTty, tty, session, label, envVars>>

\* the terminal is gone
ReadEof ==
    /\ Goto("read", "restore")
    /\ UNCHANGED <<flagVars, termVars, outcomeVars, envVars>>

Restore ==
    /\ Goto("restore", "label")
    /\ tty' = "line"
    /\ UNCHANGED <<flagVars, isTty, typed, outcomeVars, envVars>>

\* collector.write_result()
WriteLabel ==
    /\ Goto("label", "exited")
    /\ label' = result
    /\ UNCHANGED <<flagVars, termVars, session, result, envVars>>

MainStep ==
    \/ StartRecording \/ StartFails \/ InstallInt \/ InstallTerm \/ TestStop
    \/ SleepAndReport \/ Drain \/ Which \/ TestTty \/ InstallSkip \/ MakeRaw
    \/ TcgetattrFails \/ CallRead \/ ReadKey \/ Restore \/ WriteLabel

Next == MainStep \/ ReadEof \/ (\E s \in Signal : Send(s)) \/ (\E k \in Key : Type(k))

\* main() goes on.  Nobody has to send a signal, type a key or hang up.
Spec == Init /\ [][Next]_vars /\ WF_vars(MainStep)
-----------------------------------------------------------------------------
\* The process leaves the terminal as it found it, whenever a SIGINT or a SIGTERM
\* comes and whatever is typed.  SIGQUIT and SIGHUP, which main() does not
\* handle, are not modelled.
TerminalRestored == tty = "raw" => pc \in InPrompt

\* Once both handlers are installed no SIGINT or SIGTERM, at whatever moment
\* and however often, ends the process without the summary of its session.
NeverCutShort ==
    /\ pc = "exited" /\ session # "none" => session = "finalized"
    /\ pc = "killed" => "default" \in {handler[s] : s \in Signal}

\* A signal that asks to stop ends the recording, but for a SIGTERM that
\* comes before its handler is installed; a SIGTERM that ends the recording
\* ends the process, too, without a key, unless a Ctrl-C comes behind it.
SignalsEnd ==
    /\ stop ~> (session = "finalized" \/ pc = "killed")
    /\ (stopSignal = "SIGTERM" /\ pc \in Recording) ~> (pc = "exited" \/ stopSignal = "SIGINT")

\* main.cpp: a SIGTERM must not leave the process waiting on keyboard input.
\* One that comes while the operator is asked does: read() is restarted.
TermNeverWaits == termSeen ~> (pc = "exited")
=============================================================================
