------------------------------ MODULE Session -------------------------------
(***************************************************************************)
(* One run of ftx: the command line (parse_args, main), the opening of the *)
(* device with its one attempt at recovery (InitComms), the listing of     *)
(* devices (ListDevices), the command, and CloseComms at exit.  A step is  *)
(* one call of libftdi, which may fail; libftdi is external.               *)
(***************************************************************************)
EXTENDS Integers, Sequences, FiniteSets

CONSTANT Options    \* sets of command line options with which ftx is started

(* The options that name a command, in the two chains of parse_args. *)
FirstChain == <<"ls", "rm", "mkdir", "rmdir", "cp", "crc", "get", "sync", "lcrc">>
SecondChain == <<"d", "u", "x", "r", "dump">>
Several == {"cp", "get", "sync", "d", "u", "x"}
Modes == {"g", "webdav", "terminal", "console"}

ASSUME OptionsAssumption ==
    \A o \in Options : o \subseteq {FirstChain[i] : i \in DOMAIN FirstChain}
        \union {SecondChain[i] : i \in DOMAIN SecondChain} \union Modes \union {"l", "help", "bad", "few"}

VARIABLES
    pc,         \* the next call
    opts,       \* the options given
    ctx,        \* the libftdi context: "raw" or "init"
    dev,        \* the USB device: "closed" or "open"
    recover,    \* InitComms was called to recover
    error,      \* error of InitComms
    opened,     \* deviceOpened of InitComms
    closing,    \* CloseComms is registered with atexit
    exit,       \* the exit status; -1 while ftx runs
    interrupt,  \* ftdi::g_interrupt_flag
    (* history *)
    purged,     \* the buffers were purged since the device was opened
    missed      \* a libftdi function was called for a context or a device that is not there

session == <<pc, opts, ctx, dev, recover, error, opened, closing, exit, interrupt, purged, missed>>

-----------------------------------------------------------------------------
(* The command line. *)

(* The first option of a chain that was given; the others are ignored.  An  *)
(* option that wants several values and has too few of them ("few") counts   *)
(* as given, and names no command.                                           *)
Chosen(chain, o) ==
    LET given == {i \in DOMAIN chain : chain[i] \in o}
        option == chain[CHOOSE i \in given : \A j \in given : i =< j]
    IN  IF given = {} \/ (option \in Several /\ "few" \in o) THEN "none" ELSE option

(* The second chain overrides the first, and both "l". *)
Command(o) ==
    IF Chosen(SecondChain, o) # "none" THEN Chosen(SecondChain, o)
    ELSE IF Chosen(FirstChain, o) # "none" THEN Chosen(FirstChain, o)
    ELSE IF "l" \in o THEN "list" ELSE "none"

ExitWith(code) ==
    /\ pc' = IF closing THEN "flush" ELSE "end"
    /\ exit' = code

parse_args ==
    /\ pc = "start"
    /\ IF "bad" \in opts THEN ExitWith(1)
       ELSE IF "help" \in opts THEN ExitWith(0)
       ELSE IF Command(opts) = "none" /\ opts \intersect Modes = {} THEN ExitWith(1)
       ELSE IF Command(opts) = "list" THEN pc' = "list" /\ UNCHANGED exit
       ELSE IF Command(opts) = "lcrc" THEN \E code \in {0, 1} : ExitWith(code)
       ELSE pc' = "init" /\ UNCHANGED exit
    /\ UNCHANGED <<opts, ctx, dev, recover, error, opened, closing, interrupt, purged, missed>>

(* ListDevices: a context of its own, given back on every path behind ftdi_init. *)
ListDevices ==
    \/ /\ pc = "list"
       /\ \/ ctx' = "init" /\ pc' = "find" /\ UNCHANGED exit
          \/ ExitWith(0) /\ UNCHANGED ctx
       /\ UNCHANGED <<opts, dev, recover, error, opened, closing, interrupt, purged, missed>>
    \/ /\ pc = "find"
       /\ ctx' = "raw"
       /\ ExitWith(0)
       /\ UNCHANGED <<opts, dev, recover, error, opened, closing, interrupt, purged, missed>>

-----------------------------------------------------------------------------
(* InitComms. *)

Init1 ==
    /\ pc = "init"
    /\ missed' = (missed \/ ctx = "init")
    /\ opened' = FALSE
    /\ \/ ctx' = "init" /\ pc' = "open" /\ error' = FALSE
       \/ ctx' = "raw" /\ pc' = "cleanup" /\ error' = TRUE
    /\ UNCHANGED <<opts, dev, recover, closing, exit, interrupt, purged>>

(***************************************************************************)
(* ftdi_usb_open or ftdi_usb_open_desc.  The error -5, the device cannot   *)
(* be claimed, is taken for success although the device is not open.       *)
(***************************************************************************)
Open ==
    /\ pc = "open"
    /\ purged' = FALSE
    /\ \/ dev' = "open" /\ opened' = TRUE /\ pc' = "purge" /\ UNCHANGED error
       \/ dev' = "closed" /\ opened' = TRUE /\ pc' = "purge" /\ UNCHANGED error
       \/ dev' = "closed" /\ opened' = FALSE /\ pc' = "cleanup" /\ error' = TRUE
    /\ UNCHANGED <<opts, ctx, recover, closing, exit, interrupt, missed>>

(* A purge that fails is recovered from once. *)
Purge ==
    /\ pc = "purge"
    /\ \/ dev = "open" /\ purged' = TRUE /\ pc' = "config" /\ UNCHANGED error
       \/ ~recover /\ pc' = "reset" /\ UNCHANGED <<error, purged>>
       \/ recover /\ pc' = "config" /\ error' = TRUE /\ UNCHANGED purged
    /\ UNCHANGED <<opts, ctx, dev, recover, opened, closing, exit, interrupt, missed>>

(* Mutant of Recover: the context is not given back before the next attempt. *)
RecoverLeak ==
    /\ pc = "reset"
    /\ dev' = "closed"
    /\ \/ opened' = FALSE /\ recover' = TRUE /\ pc' = "init" /\ UNCHANGED <<ctx, error>>
       \/ error' = TRUE /\ pc' = "config" /\ UNCHANGED <<ctx, opened, recover>>
    /\ UNCHANGED <<opts, closing, exit, interrupt, purged, missed>>

(***************************************************************************)
(* Reset and close; then InitComms calls itself.  A close that fails (the  *)
(* interface is not released) closes the device, too, but InitComms goes   *)
(* on to configure it.                                                     *)
(***************************************************************************)
Recover ==
    /\ pc = "reset"
    /\ dev' = "closed"
    /\ \/ ctx' = "raw" /\ opened' = FALSE /\ recover' = TRUE /\ pc' = "init" /\ UNCHANGED error
       \/ error' = TRUE /\ pc' = "config" /\ UNCHANGED <<ctx, opened, recover>>
    /\ UNCHANGED <<opts, closing, exit, interrupt, purged, missed>>

(* Mutant of Configure: an error of an earlier step is forgotten. *)
ConfigureAnyway ==
    /\ pc = "config"
    /\ error' = FALSE
    /\ pc' = "cleanup"
    /\ UNCHANGED <<opts, ctx, dev, recover, opened, closing, exit, interrupt, purged, missed>>

(* Chunk sizes and bit mode: a device that is closed refuses the last. *)
Configure ==
    /\ pc = "config"
    /\ \/ dev = "open" /\ UNCHANGED error
       \/ error' = TRUE
    /\ pc' = "cleanup"
    /\ UNCHANGED <<opts, ctx, dev, recover, opened, closing, exit, interrupt, purged, missed>>

(* The end of InitComms (its variables go), and main's atexit(CloseComms). *)
Cleanup ==
    /\ pc = "cleanup"
    /\ IF error
       THEN /\ dev' = IF opened THEN "closed" ELSE dev
            /\ ctx' = "raw"
            /\ pc' = "end" /\ exit' = 1
            /\ UNCHANGED closing
       ELSE pc' = "command" /\ closing' = TRUE /\ UNCHANGED <<dev, ctx, exit>>
    /\ recover' = FALSE /\ opened' = FALSE
    /\ UNCHANGED <<opts, error, interrupt, purged, missed>>

InitComms == Init1 \/ Open \/ Purge \/ Recover \/ Configure \/ Cleanup

-----------------------------------------------------------------------------
(* Touch says that a step uses the device. *)
Touch == missed' = (missed \/ ctx # "init" \/ dev # "open")

(* The command; then one of the modes, the proxy first. *)
RunCommand ==
    /\ pc = "command"
    /\ IF Command(opts) = "none" THEN UNCHANGED missed ELSE Touch
    /\ \/ Command(opts) # "none" /\ ExitWith(1)
       \/ /\ UNCHANGED exit
          /\ pc' = IF "g" \in opts THEN "proxy" ELSE "mode"
    /\ UNCHANGED <<opts, ctx, dev, recover, error, opened, closing, interrupt, purged>>

(* The WebDAV server, the terminal and the console (modules WebDav and Console). *)
OtherMode ==
    /\ pc = "mode"
    /\ IF opts \intersect Modes = {} THEN UNCHANGED missed ELSE Touch
    /\ \E code \in (IF "webdav" \in opts THEN {0, 1} ELSE {0}) : ExitWith(code)
    /\ UNCHANGED <<opts, ctx, dev, recover, error, opened, closing, interrupt, purged>>

(* CloseComms, by atexit. *)
CloseComms ==
    /\ pc = "flush"
    /\ Touch
    /\ dev' = "closed" /\ ctx' = "raw"
    /\ pc' = "end"
    /\ UNCHANGED <<opts, recover, error, opened, closing, exit, interrupt, purged>>

(* The handler is installed after InitComms. *)
SignalHandler ==
    /\ closing /\ pc \notin {"flush", "end"} /\ ~interrupt
    /\ interrupt' = TRUE
    /\ UNCHANGED <<pc, opts, ctx, dev, recover, error, opened, closing, exit, purged, missed>>

SessionInit ==
    /\ opts \in Options
    /\ pc = "start" /\ ctx = "raw" /\ dev = "closed" /\ recover = FALSE /\ error = FALSE
    /\ opened = FALSE /\ closing = FALSE /\ exit = -1 /\ interrupt = FALSE
    /\ purged = FALSE /\ missed = FALSE

SessionNext == parse_args \/ ListDevices \/ InitComms \/ RunCommand \/ OtherMode \/ CloseComms

=============================================================================
