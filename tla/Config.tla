--------------------------------- MODULE Config ---------------------------------
(***************************************************************************)
(* The configuration of one run of dgxtop (src/config): the file, the      *)
(* command line, the sanitizing of both, and the '+' and '-' keys of the   *)
(* UI.  The interval is in tenths of a second.  NaN and infinities cannot  *)
(* be written in the file (JSON) nor pass parse_interval, so the is_finite *)
(* tests of sanitize have nothing to do.                                   *)
(***************************************************************************)
EXTENDS Integers

CONSTANTS
  Intervals,   \* intervals written in the file or on the command line
  Themes,      \* themes, "cyan" among them
  Lengths,     \* history lengths written in the file
  NetMaxima    \* network_max_visible, in the file or on the command line

ASSUME InputAssumption ==
  /\ Intervals \subseteq Int /\ Lengths \subseteq Nat /\ NetMaxima \subseteq Nat
  /\ "cyan" \in Themes

VARIABLES
  stage,    \* load, cli, run, quit (or the command line was refused)
  file,     \* what config.json holds
  args,     \* the command line; Absent for an option not given
  config    \* the AppConfig of the run

vars == <<stage, file, args, config>>

Absent == -1000
NotAFile == [kind |-> "none"]     \* missing, unreadable or malformed

Default == [interval |-> 10, theme |-> "cyan", gpu |-> TRUE, history |-> 300, net |-> 3]
Configs ==
  [interval : Intervals, theme : Themes, gpu : BOOLEAN, history : Lengths, net : NetMaxima]
Files == {NotAFile} \cup [kind : {"json"}, config : Configs]
Args ==
  [interval : Intervals \cup {Absent}, theme : Themes \cup {"absent"},
   no_gpu : BOOLEAN, net_max : NetMaxima \cup {Absent}]

Clamp(x, lo, hi) == IF x < lo THEN lo ELSE IF x > hi THEN hi ELSE x

\* Mutant: the history length is not clamped.
sanitize_AnyHistory(c) ==
  [c EXCEPT !.interval = Clamp(@, 1, 100), !.net = Clamp(@, 1, 20)]

sanitize(c) ==
  [c EXCEPT !.interval = Clamp(@, 1, 100),
            !.history = Clamp(@, 10, 10000),
            !.net = Clamp(@, 1, 20)]

\* Any problem with the file gives the defaults.
load_config(f) == IF f = NotAFile THEN Default ELSE sanitize(f.config)

\* clap fills in what is not given: default_value_t = 1.0 and "cyan".
parsed_interval(a) == IF a.interval = Absent THEN 10 ELSE a.interval
parsed_theme(a) == IF a.theme = "absent" THEN "cyan" ELSE a.theme
parse_interval_accepts(a) == a.interval = Absent \/ a.interval \in 1..100

\* Mutant: --no-gpu and --net-max are not looked at.
apply_cli_Forgets(c, a) ==
  sanitize([c EXCEPT !.interval = parsed_interval(a), !.theme = parsed_theme(a)])

\* The interval and the theme are overwritten, given or not.
apply_cli(c, a) ==
  sanitize([c EXCEPT
    !.interval = parsed_interval(a),
    !.theme = parsed_theme(a),
    !.gpu = @ /\ ~a.no_gpu,
    !.net = IF a.net_max = Absent THEN @ ELSE a.net_max])

Init ==
  /\ stage = "load" /\ file \in Files /\ args \in Args
  /\ config = Default

\* CliArgs::parse comes first and ends the program when it refuses a value.
Load ==
  /\ stage = "load"
  /\ IF parse_interval_accepts(args)
       THEN stage' = "cli" /\ config' = load_config(file)
       ELSE stage' = "quit" /\ UNCHANGED config
  /\ UNCHANGED <<file, args>>

ApplyCli ==
  /\ stage = "cli"
  /\ config' = apply_cli(config, args)
  /\ stage' = "run"
  /\ UNCHANGED <<file, args>>

\* '+', '=' and '-': AppState::adjust_interval
AdjustInterval ==
  /\ stage = "run"
  /\ \E delta \in {-1, 1} :
       config' = [config EXCEPT !.interval = Clamp(@ + delta, 1, 100)]
  /\ UNCHANGED <<stage, file, args>>

\* Quitting saves nothing: nobody calls save_config.
Quit ==
  /\ stage = "run"
  /\ stage' = "quit"
  /\ UNCHANGED <<file, args, config>>

Ended == stage = "quit" /\ UNCHANGED vars

Next == Load \/ ApplyCli \/ AdjustInterval \/ Quit \/ Ended

Spec == Init /\ [][Next]_vars

-----------------------------------------------------------------------------
(* Properties. *)

\* Whatever the file and the command line say, the run works with an interval
\* the thread can sleep, buffers that hold a sample and a panel that shows an
\* interface, and '+' and '-' keep it so.
SafeValues ==
  stage = "run" =>
    /\ config.interval \in 1..100
    /\ config.history \in 10..10000
    /\ config.net \in 1..20

\* What is given on the command line beats the file ("CLI takes precedence").
CliTakesPrecedence ==
  [][stage = "cli" =>
       /\ args.interval # Absent => config'.interval = args.interval
       /\ args.theme # "absent" => config'.theme = args.theme
       /\ args.no_gpu => ~config'.gpu
       /\ args.net_max \in 1..20 => config'.net = args.net_max]_vars

\* "Persistent application configuration": the interval in the file is the one of
\* a run whose command line names none.  The code overwrites it by clap's default.
FileIntervalIsUsed ==
  [][stage = "cli" /\ file # NotAFile /\ args.interval = Absent
       => config'.interval = Clamp(file.config.interval, 1, 100)]_vars

=============================================================================
