------------------------------ MODULE BtcvmMain ------------------------------
(***************************************************************************)
(* The btcvm plugin process: main and btcvmMain (src/unnamed/part_007),    *)
(* loadConfig and validate (cmd/btcvm/config.go), initLogging, the         *)
(* interrupt listener goroutine and interruptRequested (signal.go, with    *)
(* SIGTERM added by signal_unix.go), startProfiler and initSecurity.       *)
(*                                                                         *)
(* Three actors interleave: the main goroutine (control point pc), the     *)
(* listener goroutine interruptListener spawns, and the goroutine that     *)
(* runs rpcchainvm.Serve. The operating system delivers SIGINT or SIGTERM  *)
(* at any moment: before signal.Notify has run in the listener goroutine,  *)
(* Go's default action ends the process; after it, the signal is sent to   *)
(* the one-slot interruptChannel, or dropped when that slot is full.       *)
(*                                                                         *)
(* The command line is a short sequence of argument classes. cobra parses  *)
(* it first (the root command defines no flags but -h/--help); loadConfig  *)
(* then runs Go's flag.Parse over the same arguments. Log lines, the usage *)
(* text and the values of paths are left out.                              *)
(***************************************************************************)
EXTENDS Naturals, Sequences, SequencesExt

CONSTANTS
    MaxArgs,       \* length bound of the command line
    MaxSignals,    \* bound on the signals the environment sends
    MkdirMayFail   \* whether os.MkdirAll of the data or log directory may fail

ASSUME MaxArgs \in Nat /\ MaxSignals \in Nat /\ MkdirMayFail \in BOOLEAN

\* Flags loadConfig defines (a representative two of the seven), -h, the
\* "--" terminator and a positional argument.
ConfigFlags == {"-version", "-cpuprofile=f"}
ArgKinds == ConfigFlags \cup {"-h", "--", "pos"}
IsFlag(a) == a \in ConfigFlags \cup {"-h"}

NoExit == -1    \* the process still runs
Killed == -2    \* ended by the runtime's default action for the signal

VARIABLES
    args,       \* os.Args[1:]
    pc,         \* control point of the main goroutine (kept at exit)
    exitCode,   \* NoExit, Killed or the status passed to os.Exit
    cfgFlags,   \* the flags flag.Parse applied to cfg
    listener,   \* "none", "starting" (spawned), "waiting" (Notify done), "closed"
    sigChan,    \* signals buffered in interruptChannel (capacity 1)
    sigSent,    \* signals the environment has sent
    serve,      \* the Serve goroutine: "none", "running", "returned"
    errChan     \* errChan (capacity 1): "empty", "nil" or "err"

vars == <<args, pc, exitCode, cfgFlags, listener, sigChan, sigSent, serve, errChan>>

PCs == {"cobra", "load", "logging", "listen", "profile", "security", "check",
        "select"}

TypeOK ==
    /\ args \in BoundedSeq(ArgKinds, MaxArgs)
    /\ pc \in PCs
    /\ exitCode \in {NoExit, Killed, 0, 1, 2}
    /\ cfgFlags \subseteq ConfigFlags
    /\ listener \in {"none", "starting", "waiting", "closed"}
    /\ sigChan \in 0..1
    /\ sigSent \in 0..MaxSignals
    /\ serve \in {"none", "running", "returned"}
    /\ errChan \in {"empty", "nil", "err"}

-----------------------------------------------------------------------------
(* Argument parsing.                                                       *)

\* cobra (pflag, interspersed): every argument before the first "--" that
\* looks like a flag is parsed; any but -h is an unknown flag.
CobraFlagArgs(as) ==
    LET i == SelectInSeq(as, LAMBDA a : a = "--")
    IN  {a \in ToSet(IF i = 0 THEN as ELSE SubSeq(as, 1, i - 1)) : IsFlag(a)}

\* flag.Parse with ExitOnError: flags up to the first non-flag argument or
\* "--"; -h prints the usage and exits with status 0.
RECURSIVE GoFlagParse(_)
GoFlagParse(as) ==
    IF as = <<>> \/ Head(as) \in {"pos", "--"} THEN [set |-> {}, help |-> FALSE]
    ELSE IF Head(as) = "-h" THEN [set |-> {}, help |-> TRUE]
    ELSE LET rest == GoFlagParse(Tail(as))
         IN  [rest EXCEPT !.set = @ \cup {Head(as)}]

\* The process ends with an exit status; every goroutine ends with it.
Exit(code) == exitCode' = code /\ UNCHANGED pc

Running == exitCode = NoExit

\* interruptRequested: a non-blocking receive succeeds once c is closed.
interruptRequested == listener = "closed"

-----------------------------------------------------------------------------
(* The main goroutine.                                                     *)

Init ==
    /\ args \in BoundedSeq(ArgKinds, MaxArgs)
    /\ pc = "cobra"
    /\ exitCode = NoExit
    /\ cfgFlags = {}
    /\ listener = "none"
    /\ sigChan = 0
    /\ sigSent = 0
    /\ serve = "none"
    /\ errChan = "empty"

\* main: SetGCPercent, then rootCmd.Execute(). An unknown flag is an error
\* main prints before os.Exit(1); -h prints the help and Execute returns nil;
\* otherwise cobra calls runFunc, which calls btcvmMain.
CobraExecute ==
    /\ Running /\ pc = "cobra"
    /\ LET flags == CobraFlagArgs(args) IN
       \/ flags \ {"-h"} # {} /\ Exit(1)
       \/ flags = {"-h"} /\ Exit(0)
       \/ flags = {} /\ pc' = "load" /\ UNCHANGED exitCode
    /\ UNCHANGED <<args, cfgFlags, listener, sigChan, sigSent, serve, errChan>>

\* loadConfig: flag.Parse over the arguments; -version prints the version
\* and exits 0; validate accepts the log level (flags can set none but the
\* default "info") and creates the data and log directories, where a
\* failure is the error btcvmMain returns (main exits 1).
LoadConfig ==
    /\ Running /\ pc = "load"
    /\ LET parsed == GoFlagParse(args) IN
       /\ cfgFlags' = parsed.set
       /\ IF parsed.help \/ "-version" \in parsed.set THEN Exit(0)
          ELSE \/ MkdirMayFail /\ Exit(1)
               \/ pc' = "logging" /\ UNCHANGED exitCode
    /\ UNCHANGED <<args, listener, sigChan, sigSent, serve, errChan>>

\* initLogging: the level parses, MkdirAll of the log directory validate
\* just created succeeds, and a log file that cannot be opened falls back
\* to stderr. Then the version and the configuration are logged.
InitLogging ==
    /\ Running /\ pc = "logging"
    /\ pc' = "listen"
    /\ UNCHANGED <<args, exitCode, cfgFlags, listener, sigChan, sigSent, serve, errChan>>

\* interrupt := interruptListener(): spawns the listener goroutine and
\* returns at once, before that goroutine has called signal.Notify.
CallInterruptListener ==
    /\ Running /\ pc = "listen"
    /\ listener' = "starting"
    /\ pc' = "profile"
    /\ UNCHANGED <<args, exitCode, cfgFlags, sigChan, sigSent, serve, errChan>>

\* startProfiler with the cfg's empty profile names: no CPU profile, no
\* memory profile, no HTTP server; the cleanup it returns (deferred) does
\* nothing. Its error branches need a -cpuprofile that cfg never gets.
StartProfiler ==
    /\ Running /\ pc = "profile"
    /\ cfgFlags = {}
    /\ pc' = "security"
    /\ UNCHANGED <<args, exitCode, cfgFlags, listener, sigChan, sigSent, serve, errChan>>

\* initSecurity: isOpenBSD() is false, so it returns nil.
InitSecurity ==
    /\ Running /\ pc = "security"
    /\ pc' = "check"
    /\ UNCHANGED <<args, exitCode, cfgFlags, listener, sigChan, sigSent, serve, errChan>>

\* if interruptRequested(interrupt) { return nil }: a non-blocking receive on
\* the closed channel. Otherwise Serve is started on its own goroutine.
CheckInterrupt ==
    /\ Running /\ pc = "check"
    /\ IF interruptRequested THEN Exit(0) /\ UNCHANGED serve
       ELSE /\ serve' = "running"
            /\ pc' = "select"
            /\ UNCHANGED exitCode
    /\ UNCHANGED <<args, cfgFlags, listener, sigChan, sigSent, errChan>>

\* select on <-interrupt and <-errChan; Go picks any ready case. The return
\* runs the deferred stopProfiler and log call; main exits 1 on an error.
SelectInterrupt ==
    /\ Running /\ pc = "select"
    /\ listener = "closed"
    /\ Exit(0)
    /\ UNCHANGED <<args, cfgFlags, listener, sigChan, sigSent, serve, errChan>>

SelectServeResult ==
    /\ Running /\ pc = "select"
    /\ errChan # "empty"
    /\ Exit(IF errChan = "err" THEN 1 ELSE 0)
    /\ UNCHANGED <<args, cfgFlags, listener, sigChan, sigSent, serve, errChan>>

-----------------------------------------------------------------------------
(* The listener goroutine of interruptListener.                            *)

\* signal.Notify(interruptChannel, os.Interrupt, syscall.SIGTERM).
ListenerNotify ==
    /\ Running /\ listener = "starting"
    /\ listener' = "waiting"
    /\ UNCHANGED <<args, pc, exitCode, cfgFlags, sigChan, sigSent, serve, errChan>>

\* A fault: the first select receives the signal but never closes c.
ListenerReceive_NoClose ==
    /\ Running /\ listener \in {"waiting", "closed"}
    /\ sigChan = 1
    /\ sigChan' = 0
    /\ UNCHANGED <<args, pc, exitCode, cfgFlags, listener, sigSent, serve, errChan>>


\* The first select receives a signal and closes c; the loop after it
\* receives every later one. (Nothing sends on shutdownRequestChannel.)
ListenerReceive ==
    /\ Running /\ listener \in {"waiting", "closed"}
    /\ sigChan = 1
    /\ sigChan' = 0
    /\ listener' = "closed"
    /\ UNCHANGED <<args, pc, exitCode, cfgFlags, sigSent, serve, errChan>>

-----------------------------------------------------------------------------
(* The environment: rpcchainvm.Serve and the operating system.             *)

\* errChan <- rpcchainvm.Serve(ctx, &vm.VM{}): Serve returns when the host
\* ends the plugin's connection (nil) or on a server error; errChan has room.
ServeReturns ==
    /\ Running /\ serve = "running"
    /\ serve' = "returned"
    /\ errChan' \in {"nil", "err"}
    /\ UNCHANGED <<args, pc, exitCode, cfgFlags, listener, sigChan, sigSent>>

\* SIGINT or SIGTERM. Before signal.Notify, Go's default action ends the
\* process without running btcvmMain's deferred calls; after it, the signal
\* package sends to interruptChannel without blocking, dropping the signal
\* when the slot is taken.
Signal ==
    /\ Running /\ sigSent < MaxSignals
    /\ sigSent' = sigSent + 1
    /\ IF listener \in {"none", "starting"}
       THEN Exit(Killed) /\ UNCHANGED sigChan
       ELSE sigChan' = 1 /\ UNCHANGED <<exitCode, pc>>
    /\ UNCHANGED <<args, cfgFlags, listener, serve, errChan>>

-----------------------------------------------------------------------------

MainStep ==
    \/ CobraExecute \/ LoadConfig \/ InitLogging \/ CallInterruptListener
    \/ StartProfiler \/ InitSecurity \/ CheckInterrupt
    \/ SelectInterrupt \/ SelectServeResult

Listener == ListenerNotify \/ ListenerReceive

Next == MainStep \/ Listener \/ ServeReturns \/ Signal

\* The Go scheduler runs the runnable main and listener goroutines; a select
\* with a ready case proceeds. Serve and the signals get no fairness: the
\* host may serve for ever and never signal.
Spec == Init /\ [][Next]_vars /\ WF_vars(MainStep) /\ WF_vars(Listener)

-----------------------------------------------------------------------------
(* Properties.                                                             *)

\* A SIGINT or SIGTERM ends the process: by the runtime's default action
\* before the listener has called signal.Notify, and otherwise by the
\* listener closing the interrupt channel and btcvmMain returning, from
\* whichever step main is at.
SignalEndsProcess == sigSent > 0 ~> ~Running

=============================================================================
