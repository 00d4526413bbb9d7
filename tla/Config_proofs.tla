----------------------------- MODULE Config_proofs -----------------------------
(***************************************************************************)
(* Proofs about Config, for all intervals, themes, history lengths and     *)
(* network maxima that a file or a command line can hold: the values a run *)
(* works with are safe, and the command line has the last word.            *)
(***************************************************************************)
EXTENDS Config, TLAPS

ConfigType == [interval : Int, theme : Themes, gpu : BOOLEAN, history : Int, net : Int]

LEMMA NatIsInt == Nat \subseteq Int
OBVIOUS

\* sanitize's clamps put a number between their bounds, and leave it there.
LEMMA ClampBounds ==
  ASSUME NEW x \in Int
  PROVE  /\ Clamp(x, 1, 100) \in 1..100 /\ (x \in 1..100 => Clamp(x, 1, 100) = x)
         /\ Clamp(x, 10, 10000) \in 10..10000
         /\ Clamp(x, 1, 20) \in 1..20 /\ (x \in 1..20 => Clamp(x, 1, 20) = x)
BY DEF Clamp

\* What sanitize does to each field.
LEMMA SanitizeFields ==
  ASSUME NEW c \in ConfigType
  PROVE  /\ sanitize(c) \in ConfigType
         /\ sanitize(c).interval = Clamp(c.interval, 1, 100)
         /\ sanitize(c).history = Clamp(c.history, 10, 10000)
         /\ sanitize(c).net = Clamp(c.net, 1, 20)
         /\ sanitize(c).theme = c.theme /\ sanitize(c).gpu = c.gpu
<1> DEFINE x == Clamp(c.interval, 1, 100)
           y == Clamp(c.history, 10, 10000)
           z == Clamp(c.net, 1, 20)
<1>1. c.interval \in Int /\ c.history \in Int /\ c.net \in Int
  BY DEF ConfigType
<1>2. x \in Int /\ y \in Int /\ z \in Int
  BY <1>1 DEF Clamp
<1>3. sanitize(c) = [c EXCEPT !.interval = x, !.history = y, !.net = z]
  BY Zenon DEF sanitize
<1> HIDE DEF x, y, z
<1>4. [c EXCEPT !.interval = x, !.history = y, !.net = z] \in ConfigType
  BY <1>2 DEF ConfigType
<1>5. /\ sanitize(c).interval = x /\ sanitize(c).history = y /\ sanitize(c).net = z
      /\ sanitize(c).theme = c.theme /\ sanitize(c).gpu = c.gpu
  BY <1>3 DEF ConfigType
<1> QED
  BY <1>3, <1>4, <1>5 DEF x, y, z

\* Its numbers are safe.
LEMMA SanitizedIsSafe ==
  ASSUME NEW c \in ConfigType
  PROVE  /\ sanitize(c).interval \in 1..100
         /\ sanitize(c).history \in 10..10000
         /\ sanitize(c).net \in 1..20
<1> DEFINE x == c.interval
           y == c.history
           z == c.net
<1>1. x \in Int /\ y \in Int /\ z \in Int
  BY DEF ConfigType
<1>2. /\ sanitize(c).interval = Clamp(x, 1, 100)
      /\ sanitize(c).history = Clamp(y, 10, 10000)
      /\ sanitize(c).net = Clamp(z, 1, 20)
  BY SanitizeFields
<1> HIDE DEF x, y, z
<1>3. Clamp(x, 1, 100) \in 1..100
  BY <1>1, ClampBounds
<1>4. Clamp(y, 10, 10000) \in 10..10000
  BY <1>1 DEF Clamp
<1>5. Clamp(z, 1, 20) \in 1..20
  BY <1>1, ClampBounds
<1> QED
  BY <1>2, <1>3, <1>4, <1>5

\* The configuration that the command line is applied to, before sanitize.
Overridden(c, a) ==
  [c EXCEPT !.interval = parsed_interval(a),
            !.theme = parsed_theme(a),
            !.gpu = c.gpu /\ ~a.no_gpu,
            !.net = IF a.net_max = Absent THEN c.net ELSE a.net_max]

LEMMA ApplyCliSanitizes ==
  ASSUME NEW c \in ConfigType, NEW a \in Args
  PROVE  /\ apply_cli(c, a) = sanitize(Overridden(c, a))
         /\ Overridden(c, a) \in ConfigType
         /\ Overridden(c, a).interval = parsed_interval(a)
         /\ Overridden(c, a).theme = parsed_theme(a)
         /\ Overridden(c, a).gpu = (c.gpu /\ ~a.no_gpu)
         /\ Overridden(c, a).net = IF a.net_max = Absent THEN c.net ELSE a.net_max
<1> DEFINE i == parsed_interval(a)
           t == parsed_theme(a)
           g == c.gpu /\ ~a.no_gpu
           n == IF a.net_max = Absent THEN c.net ELSE a.net_max
<1>1. Absent \in Int
  BY DEF Absent
<1>2. a.interval \in Intervals \cup {Absent} /\ a.net_max \in NetMaxima \cup {Absent}
  BY DEF Args
<1>3. a.theme \in Themes \cup {"absent"}
  BY DEF Args
<1>11. a.interval \in Int /\ a.net_max \in Int
  BY <1>1, <1>2, InputAssumption, NatIsInt, Zenon
<1>12. c.net \in Int
  BY DEF ConfigType
<1>4. i \in Int /\ t \in Themes
  <2>1. i \in Int
    BY <1>11 DEF parsed_interval
  <2>2. t \in Themes
    BY <1>3, InputAssumption DEF parsed_theme
  <2> QED
    BY <2>1, <2>2
<1>5. g \in BOOLEAN
  BY Zenon
<1>6. n \in Int
  BY <1>11, <1>12
<1>7. apply_cli(c, a) = sanitize(Overridden(c, a))
  BY Zenon DEF apply_cli, Overridden
<1>8. Overridden(c, a) = [c EXCEPT !.interval = i, !.theme = t, !.gpu = g, !.net = n]
  BY Zenon DEF Overridden
<1> HIDE DEF i, t, g, n
<1>9. Overridden(c, a) \in ConfigType
  BY <1>4, <1>5, <1>6, <1>8 DEF ConfigType
<1>10. /\ Overridden(c, a).interval = i /\ Overridden(c, a).theme = t
       /\ Overridden(c, a).gpu = g /\ Overridden(c, a).net = n
  BY <1>8 DEF ConfigType
<1> QED
  BY <1>7, <1>9, <1>10, Zenon DEF i, t, g, n

\* The file's configuration, or the default one, has numbers to work with.
LEMMA LoadedType == ASSUME NEW f \in Files PROVE load_config(f) \in ConfigType
<1>1. Default \in ConfigType
  BY InputAssumption DEF Default, ConfigType
<1>2. CASE f = NotAFile
  BY <1>1, <1>2 DEF load_config
<1>3. CASE f # NotAFile
  <2>1. f.config \in Configs
    BY <1>3 DEF Files
  <2>2. ASSUME NEW c \in Configs PROVE c \in ConfigType
    <3>1. /\ c.interval \in Intervals /\ c.theme \in Themes /\ c.gpu \in BOOLEAN
          /\ c.history \in Lengths /\ c.net \in NetMaxima
          /\ c = [interval |-> c.interval, theme |-> c.theme, gpu |-> c.gpu,
                  history |-> c.history, net |-> c.net]
      BY DEF Configs
    <3>2. c.interval \in Int /\ c.history \in Int /\ c.net \in Int
      BY <3>1, InputAssumption, NatIsInt, Zenon
    <3> QED
      BY <3>1, <3>2 DEF ConfigType
  <2> QED
    BY <1>3, <2>1, <2>2, SanitizeFields DEF load_config
<1> QED
  BY <1>2, <1>3

IInv ==
  /\ stage \in {"load", "cli", "run", "quit"}
  /\ file \in Files /\ args \in Args /\ config \in ConfigType
  /\ SafeValues

LEMMA InitIInv == Init => IInv
<1>1. Default \in ConfigType
  BY InputAssumption DEF Default, ConfigType
<1> QED
  BY <1>1 DEF Init, IInv, SafeValues

LEMMA NextIInv == IInv /\ [Next]_vars => IInv'
<1> SUFFICES ASSUME IInv, [Next]_vars PROVE IInv'
  OBVIOUS
<1>1. CASE Load
  <2>1. load_config(file) \in ConfigType
    BY LoadedType DEF IInv
  <2> QED
    BY <1>1, <2>1 DEF Load, IInv, SafeValues
<1>2. CASE ApplyCli
  <2>1. PICK c \in ConfigType : config' = sanitize(c)
    BY <1>2, ApplyCliSanitizes DEF ApplyCli, IInv
  <2>2. config' \in ConfigType
    BY <2>1, SanitizeFields
  <2>3. SafeValues'
    BY <2>1, SanitizedIsSafe DEF SafeValues
  <2> QED
    BY <1>2, <2>2, <2>3 DEF ApplyCli, IInv
<1>3. CASE AdjustInterval
  <2>1. PICK delta \in {-1, 1} :
          config' = [config EXCEPT !.interval = Clamp(config.interval + delta, 1, 100)]
    BY <1>3 DEF AdjustInterval
  <2>2. config.interval + delta \in Int
    BY <2>1 DEF IInv, ConfigType
  <2>3. Clamp(config.interval + delta, 1, 100) \in 1..100
    BY <2>2, ClampBounds
  <2> DEFINE x == Clamp(config.interval + delta, 1, 100)
  <2>4. config' \in ConfigType /\ config'.interval = x
        /\ config'.history = config.history /\ config'.net = config.net
    BY <2>1, <2>3 DEF IInv, ConfigType
  <2> QED
    BY <1>3, <2>3, <2>4 DEF AdjustInterval, IInv, SafeValues
<1>4. CASE Quit \/ Ended \/ UNCHANGED vars
  BY <1>4 DEF Quit, Ended, vars, IInv, SafeValues
<1> QED
  BY <1>1, <1>2, <1>3, <1>4 DEF Next

LEMMA Invariance == Spec => []IInv
BY InitIInv, NextIInv, PTL DEF Spec

\* Whatever is written in the file and on the command line, and however often '+'
\* and '-' are pressed, the interval, the buffers and the panel sizes of the run
\* stay within the bounds that sanitize and adjust_interval enforce.
THEOREM ValuesAreSafe == Spec => []SafeValues
<1>1. IInv => SafeValues
  BY DEF IInv
<1> QED
  BY <1>1, Invariance, PTL

\* apply_cli gives every option that is present the last word over the file.
THEOREM CliHasLastWord == Spec => CliTakesPrecedence
<1> DEFINE Wins ==
      stage = "cli" =>
        /\ args.interval # Absent => config'.interval = args.interval
        /\ args.theme # "absent" => config'.theme = args.theme
        /\ args.no_gpu => ~config'.gpu
        /\ args.net_max \in 1..20 => config'.net = args.net_max
      Accepted == IInv /\ (stage = "cli" => parse_interval_accepts(args))
<1>1. Init => Accepted
  BY InitIInv DEF Init
<1>2. Accepted /\ [Next]_vars => Accepted'
  <2> SUFFICES ASSUME Accepted, [Next]_vars PROVE (stage = "cli" => parse_interval_accepts(args))'
    BY NextIInv
  <2> QED
    BY DEF Next, Load, ApplyCli, AdjustInterval, Quit, Ended, vars, parse_interval_accepts
<1>3. Accepted /\ [Next]_vars => [Wins]_vars
  <2> SUFFICES ASSUME Accepted, Next, stage = "cli"
               PROVE  /\ args.interval # Absent => config'.interval = args.interval
                      /\ args.theme # "absent" => config'.theme = args.theme
                      /\ args.no_gpu => ~config'.gpu
                      /\ args.net_max \in 1..20 => config'.net = args.net_max
    OBVIOUS
  <2>1. config' = apply_cli(config, args) /\ config \in ConfigType /\ args \in Args
    BY DEF Next, Load, ApplyCli, AdjustInterval, Quit, Ended, IInv
  <2> DEFINE o == Overridden(config, args)
  <2>2. config' = sanitize(o) /\ o \in ConfigType
    BY <2>1, ApplyCliSanitizes
  <2>3. /\ config'.interval = Clamp(o.interval, 1, 100)
        /\ config'.net = Clamp(o.net, 1, 20)
        /\ config'.theme = o.theme /\ config'.gpu = o.gpu
    BY <2>2, SanitizeFields
  <2>4. /\ o.interval = parsed_interval(args) /\ o.theme = parsed_theme(args)
        /\ o.gpu = (config.gpu /\ ~args.no_gpu)
        /\ o.net = IF args.net_max = Absent THEN config.net ELSE args.net_max
    BY <2>1, ApplyCliSanitizes
  <2> HIDE DEF o
  <2>5. args.interval # Absent => config'.interval = args.interval
    <3>1. parsed_interval(args) \in 1..100
      BY DEF parsed_interval, parse_interval_accepts
    <3> QED
      BY <2>3, <2>4, <3>1, ClampBounds DEF parsed_interval
  <2>6. args.theme # "absent" => config'.theme = args.theme
    BY <2>3, <2>4 DEF parsed_theme
  <2>7. args.no_gpu => ~config'.gpu
    BY <2>3, <2>4
  <2>8. args.net_max \in 1..20 => config'.net = args.net_max
    BY <2>3, <2>4, ClampBounds DEF Absent
  <2> QED
    BY <2>5, <2>6, <2>7, <2>8
<1> QED
  BY <1>1, <1>2, <1>3, PTL DEF Spec, CliTakesPrecedence

=============================================================================
