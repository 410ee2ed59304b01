------------------------------ MODULE LXMFConfig ------------------------------
(***************************************************************************)
(* The text of the configuration file (config.go): ParseConfig on          *)
(* readSectionedKV, WriteConfig, DefaultConfig and DefaultConfigText.      *)
(*                                                                         *)
(* A text is a sequence of lines and a line a sequence of tokens: marks,   *)
(* words and numerals; in a Config a text may have newlines.  Fractions    *)
(* are counted in thousandths; a numeral has a form that strconv.Atoi      *)
(* accepts or only ParseFloat does.                                        *)
(***************************************************************************)
EXTENDS Integers, Sequences, SequencesExt

CONSTANTS
  MaxLine,   \* the scanner's limit for a line and its newline
  MaxValue   \* the longest value that is tried

SP == <<"mark", " ">>
NL == <<"mark", "newline">>
Hash == <<"mark", "#">>
Equals == <<"mark", "=">>
Open == <<"mark", "[">>
Close == <<"mark", "]">>
Comma == <<"mark", ",">>
Word(w) == <<"word", w>>
Num(n) == <<"num", 1000 * n, "int">>
Frac(m) == <<"num", m, "frac">>
NaN == Word("NaN")

\* The settings in the order of WriteConfig: section, key, kind, least value,
\* default.  NoLeast: a number that may be negative.  The value of a "float" is
\* a sequence of its thousandths, which is empty for NaN.
NoLeast == -1000000
Settings == <<
  <<"lxmf", "display_name", "text", NoLeast, <<Word("Anonymous Peer")>>>>,
  <<"lxmf", "announce_at_start", "bool", NoLeast, FALSE>>,
  <<"lxmf", "announce_interval", "int", NoLeast, 0>>,
  <<"lxmf", "delivery_transfer_max_accepted_size", "float", 380, <<1000000>>>>,
  <<"lxmf", "on_inbound", "text", NoLeast, <<>>>>,
  <<"propagation", "enable_node", "bool", NoLeast, FALSE>>,
  <<"propagation", "node_name", "text", NoLeast, <<>>>>,
  <<"propagation", "auth_required", "bool", NoLeast, FALSE>>,
  <<"propagation", "announce_at_start", "bool", NoLeast, TRUE>>,
  <<"propagation", "announce_interval", "int", NoLeast, 360>>,
  <<"propagation", "autopeer", "bool", NoLeast, TRUE>>,
  <<"propagation", "autopeer_maxdepth", "int", NoLeast, 6>>,
  <<"propagation", "message_storage_limit", "float", 5, <<500000>>>>,
  <<"propagation", "propagation_transfer_max_accepted_size", "float", 380, <<256000>>>>,
  <<"propagation", "propagation_message_max_accepted_size", "float", 380, <<256000>>>>,
  <<"propagation", "propagation_sync_max_accepted_size", "float", 380, <<10240000>>>>,
  <<"propagation", "propagation_stamp_cost_target", "int", 13, 16>>,
  <<"propagation", "propagation_stamp_cost_flexibility", "int", 0, 3>>,
  <<"propagation", "peering_cost", "int", 0, 18>>,
  <<"propagation", "remote_peering_cost_max", "int", 0, 26>>,
  <<"propagation", "prioritise_destinations", "list", NoLeast, <<>>>>,
  <<"propagation", "control_allowed", "list", NoLeast, <<>>>>,
  <<"propagation", "static_peers", "list", NoLeast, <<>>>>,
  <<"propagation", "max_peers", "int", NoLeast, 20>>,
  <<"propagation", "from_static_only", "bool", NoLeast, FALSE>>,
  <<"logging", "loglevel", "level", 1, 4>> >>

\* A Config is a sequence of values, one for each setting.
DefaultConfig == [i \in DOMAIN Settings |-> Settings[i][5]]

-----------------------------------------------------------------------------
(* Lines *)

\* strings.TrimSpace
RECURSIVE TrimSpace(_)
TrimSpace(s) ==
  IF s # <<>> /\ Head(s) = SP THEN TrimSpace(Tail(s))
  ELSE IF s # <<>> /\ Last(s) = SP THEN TrimSpace(Front(s))
  ELSE s

\* What stands before the first token c, and after it.
Before(s, c) == IF Contains(s, c) THEN SubSeq(s, 1, SelectInSeq(s, LAMBDA t : t = c) - 1) ELSE s
Beyond(s, c) == SubSeq(s, SelectInSeq(s, LAMBDA t : t = c) + 1, Len(s))

RECURSIVE Split(_, _)
Split(s, c) == IF Contains(s, c) THEN <<Before(s, c)>> \o Split(Beyond(s, c), c) ELSE <<s>>

Failed == [ok |-> FALSE, current |-> <<>>, out |-> <<>>]

\* Mutant of ReadLine: a comment is only recognised at the start of a line.
ReadLineLate(st, text) ==
  LET line == TrimSpace(IF text # <<>> /\ Head(text) = Hash THEN <<>> ELSE text)
      k == TrimSpace(Before(line, Equals))
  IN CASE ~st.ok \/ line = <<>> -> st
       [] Head(line) = Open /\ Last(line) = Close ->
            [st EXCEPT !.current = TrimSpace(SubSeq(line, 2, Len(line) - 1))]
       [] OTHER -> [st EXCEPT !.out = Append(@, <<st.current, k, TrimSpace(Beyond(line, Equals))>>)]

\* One turn of the loop of readSectionedKV: the comment is cut off, then the line
\* is blank, a section's header or an assignment; out collects the assignments.
ReadLine(st, text) ==
  LET line == TrimSpace(Before(text, Hash))
      header == TrimSpace(SubSeq(line, 2, Len(line) - 1))
      k == TrimSpace(Before(line, Equals))
  IN CASE ~st.ok -> st
       [] st.ok /\ Len(text) + 1 > MaxLine -> Failed
       [] st.ok /\ Len(text) + 1 <= MaxLine /\ line = <<>> -> st
       [] OTHER ->
            IF Head(line) = Open /\ Last(line) = Close
              THEN IF header = <<>> THEN Failed ELSE [st EXCEPT !.current = header]
            ELSE IF ~Contains(line, Equals) \/ st.current = <<>> \/ k = <<>> THEN Failed
            ELSE [st EXCEPT !.out = Append(@, <<st.current, k, TrimSpace(Beyond(line, Equals))>>)]

ReadSectionedKV(text) ==
  LET after[n \in 0..Len(text)] ==
        IF n = 0 THEN [Failed EXCEPT !.ok = TRUE] ELSE ReadLine(after[n - 1], text[n])
  IN after[Len(text)]

-----------------------------------------------------------------------------
(* Values *)

AtLeast(n, least) == IF n < least THEN least ELSE n

ParseBool(v) == v \in {<<Num(1)>>} \union {<<Word(w)>> : w \in {"yes", "y", "true", "on"}}

ParseInt(v) == IF Len(v) = 1 /\ v[1][1] = "num" /\ Last(v[1]) = "int" THEN v[1][2] \div 1000 ELSE 0

\* parseFloatOrZero and the comparison with the least value, which no comparison
\* with NaN makes true.
ParseFloat(v, least) ==
  IF v = <<NaN>> THEN <<>>
  ELSE IF Len(v) = 1 /\ v[1][1] = "num" THEN <<AtLeast(v[1][2], least)>>
  ELSE <<AtLeast(0, least)>>

ParseList(v) ==
  LET parts == Split(v, Comma)
  IN SelectSeq([i \in DOMAIN parts |-> TrimSpace(parts[i])], LAMBDA p : p # <<>>)

ParseValue(kind, least, v) ==
  CASE kind = "text" -> v
    [] kind = "bool" -> ParseBool(v)
    [] kind = "int" -> AtLeast(ParseInt(v), least)
    [] kind = "level" -> LET n == AtLeast(ParseInt(v), least) IN IF n > 7 THEN 7 ELSE n
    [] kind = "float" -> ParseFloat(v, least)
    [] kind = "list" -> ParseList(v)

\* ParseConfig: the last assignment of a key counts, an unknown one is ignored.
ParseConfig(text) ==
  LET kv == ReadSectionedKV(text)
      Is(i, a) == a[1] = <<Word(Settings[i][1])>> /\ a[2] = <<Word(Settings[i][2])>>
      cfg[n \in 0..Len(kv.out)] ==
        IF n = 0 THEN DefaultConfig
        ELSE [i \in DOMAIN Settings |->
                IF Is(i, kv.out[n]) THEN ParseValue(Settings[i][3], Settings[i][4], kv.out[n][3])
                ELSE cfg[n - 1][i]]
  IN IF kv.ok THEN cfg[Len(kv.out)] ELSE <<"error">>

\* boolStr, strconv.Itoa, floatStr and strings.Join.
FormatValue(kind, x) ==
  CASE kind = "text" -> x
    [] kind = "bool" -> <<Word(IF x THEN "yes" ELSE "no")>>
    [] kind \in {"int", "level"} -> <<Num(x)>>
    [] kind = "float" -> IF x = <<>> THEN <<NaN>>
                         ELSE <<IF x[1] % 1000 = 0 THEN Num(x[1] \div 1000) ELSE Frac(x[1])>>
    [] kind = "list" -> FoldLeft(LAMBDA acc, p : IF acc = <<>> THEN p ELSE acc \o <<Comma, SP>> \o p,
                                 <<>>, x)

Header(name) == << <<Open, Word(name), Close>>, <<>> >>
Assign(key, v) == <<Word(key), SP, Equals, SP>> \o v

\* WriteConfig with emitSection: a newline in a value ends the line.
WriteConfig(cfg) ==
  LET Lines(name) ==
        LET own == SelectSeq([i \in DOMAIN Settings |-> i], LAMBDA i : Settings[i][1] = name)
        IN [j \in DOMAIN own |->
              Assign(Settings[own[j]][2], FormatValue(Settings[own[j]][3], cfg[own[j]]))]
      Emit(name) == Header(name) \o Lines(name) \o << <<>> >>
      text == Emit("lxmf") \o Emit("propagation") \o Emit("logging")
  IN FlattenSeq([i \in DOMAIN text |-> Split(text[i], NL)])

\* The lines of DefaultConfigText that are neither blank nor comments.
DefaultConfigText ==
  Header("propagation")
  \o << Assign("enable_node", <<Word("no")>>), Assign("announce_interval", <<Num(360)>>),
        Assign("announce_at_start", <<Word("yes")>>), Assign("autopeer", <<Word("yes")>>),
        Assign("autopeer_maxdepth", <<Num(6)>>), Assign("auth_required", <<Word("no")>>) >>
  \o Header("lxmf")
  \o << Assign("display_name", <<Word("Anonymous Peer")>>), Assign("announce_at_start", <<Word("no")>>),
        Assign("delivery_transfer_max_accepted_size", <<Num(1000)>>) >>
  \o Header("logging")
  \o << Assign("loglevel", <<Num(4)>>) >>

-----------------------------------------------------------------------------
(* Properties, over values of one token or of up to MaxValue of a few        *)

Tokens == {SP, Hash, Equals, Open, Close, Comma, Word("yes"), Num(5), Num(-1), Frac(100), Frac(400), NaN}
Values == {<<t>> : t \in Tokens}
          \union UNION {[1..n -> {SP, Hash, Equals, Comma, Num(5), Open}] : n \in 0..MaxValue}

\* What a program may have put into a Config: two lines are one value.
Given == Values \union {v \o <<NL>> \o w : v, w \in {x \in Values : Len(x) < 2}}

\* One setting of every kind and floor.
Samples == {1, 3, 4, 8, 13, 17, 18, 22, 26}

\* Lines that move sections, repeat keys or are malformed.
OddLines == {<<Open, SP, Word("lxmf"), Close>>, <<Open, Close>>, <<Hash>>, <<Word("yes")>>, <<Equals, Num(5)>>,
             <<Open, Word("logging"), Close, Hash>>, <<Word("loglevel"), Equals, Num(9)>>,
             <<Word("display_name"), Equals, Open, Close>>, <<Word("display_name"), SP, Equals>>}

\* Files an operator may have written: one assignment with any value, with and
\* without blanks around it, or three lines of the odd ones.
ConfigTexts ==
  {<<Header(Settings[i][1])[1], <<Word(Settings[i][2]), Equals>> \o v>> : i \in Samples, v \in Values}
  \union [1..3 -> OddLines]

AtLimit(text) == \E i \in DOMAIN text : Len(text[i]) + 1 > MaxLine

\* What LoadConfig makes of a file is what it makes of the file that SaveConfig
\* writes of it, whatever comments, blanks, empty list items, fractions and
\* unreadable numbers were in it.  The one exception is a value so long that
\* the blanks WriteConfig puts around it take its line past the scanner's limit:
\* the saved file cannot be loaded any more.
SaveKeepsConfig ==
  \A t \in ConfigTexts : LET cfg == ParseConfig(t)
                        again == WriteConfig(cfg)
                    IN cfg # <<"error">> =>
                         ParseConfig(again) = IF AtLimit(again) THEN <<"error">> ELSE cfg

\* Of a Config that a program has filled in, a text comes back as it was given
\* if and only if it has no blank at its ends and no "#" and no newline in it
\* (config.go:241, 413-417).  The stock text is read as DefaultConfig.
SavedAsGiven ==
  /\ \A v \in Given :
       LET cfg == [DefaultConfig EXCEPT ![1] = v] IN
       ~AtLimit(WriteConfig(cfg)) =>
         (ParseConfig(WriteConfig(cfg)) = cfg <=>
            TrimSpace(v) = v /\ ~Contains(v, Hash) /\ ~Contains(v, NL))
  /\ ParseConfig(DefaultConfigText) = DefaultConfig

\* "WriteConfig emits lxmd-style text parseable by ParseConfig." (config.go:235),
\* if no line is too long for the scanner.
WrittenParses ==
  \A v \in Given :
    LET text == WriteConfig([DefaultConfig EXCEPT ![1] = v])
    IN ~AtLimit(text) => ParseConfig(text) # <<"error">>

\* Whatever the file says, a number is not below the least value that ParseConfig
\* enforces and the log level is one of the seven; only NaN gets past the
\* comparison.
LoadedInRange ==
  \A t \in ConfigTexts : LET cfg == ParseConfig(t) IN cfg # <<"error">> =>
    \A i \in DOMAIN Settings :
      /\ Settings[i][3] \in {"int", "level"} => cfg[i] >= Settings[i][4]
      /\ Settings[i][3] = "level" => cfg[i] <= 7
      /\ Settings[i][3] = "float" => cfg[i] = <<>> \/ cfg[i][1] >= Settings[i][4]
=============================================================================
