----------------------------- MODULE MountOptions -----------------------------
(***************************************************************************)
(* Mount options from the words of a command line to libfuse's parser:      *)
(* MountConfig::parse_option_words takes them in, build_mount_options turns *)
(* the config into MountOptions, MountOption::render turns each into a word *)
(* of a single `-o' argument, or drops it on a platform without it, and     *)
(* libfuse takes the argument apart again.                                  *)
(*                                                                         *)
(* A word is a sequence of symbols: its key is one symbol, a value is a     *)
(* sequence of characters, of which only the comma and the backslash matter.*)
(* AutoUnmount, which a config cannot ask for, is left out.                 *)
(***************************************************************************)
EXTENDS Integers, Sequences
LOCAL INSTANCE SequencesExt

CONSTANTS
    Values,     \* values of fsname, subtype and volname: sequences of characters
    Default,    \* the fs_name a daemon starts from
    MaxWords    \* bound: words on the command line

ASSUME OptionValues == Default \in Values /\ MaxWords \in Nat

VARIABLES
    macos,      \* cfg!(target_os = "macos")
    config,     \* the MountConfig
    given,      \* the words given so far (history)
    received    \* the words libfuse found in the argument, once mounted

optVars == <<macos, config, given, received>>

Comma == ","
Backslash == "\\"

Named == {"fsname=", "subtype=", "volname="}
Flags == {"allow_other", "allow_root", "default_permissions", "nonempty", "ro"}
Words == {<<key>> \o value : key \in Named, value \in Values}
         \cup {<<word>> : word \in Flags \cup {"rw", "noatime"}}

------------------------------------------------------------------------------
\* MountConfig::new; no value is None.
NewConfig ==
    [value |-> [key \in Named |-> IF key = "fsname=" THEN {Default} ELSE {}],
     set   |-> {"default_permissions"},
     extra |-> <<>>]

\* One round of parse_option_words.
parse_option_word(c, word) ==
    LET key == Head(word)
    IN  CASE key \in Named -> [c EXCEPT !.value[key] = {Tail(word)}]
          [] key \in Flags -> [c EXCEPT !.set = @ \cup {key}]
          [] key = "rw"    -> [c EXCEPT !.set = @ \ {"ro"}]
          [] OTHER         -> [c EXCEPT !.extra = Append(@, word)]

\* Mutated forms, here and below: a definition as a bug would have it. Nothing
\* uses them but the experiments that show the properties notice such a bug.
escape_option_value_OnlyCommas(value) ==
    FlattenSeq([i \in DOMAIN value |->
        IF value[i] = Comma THEN <<Backslash, value[i]>> ELSE <<value[i]>>])

escape_option_value(value) ==
    FlattenSeq([i \in DOMAIN value |->
        IF value[i] \in {Comma, Backslash} THEN <<Backslash, value[i]>> ELSE <<value[i]>>])

\* The options of a config in the order of build_mount_options.
build_mount_options(c) ==
    LET named(key) == IF c.value[key] = {} THEN <<>>
                      ELSE <<[key |-> key, value |-> CHOOSE v \in c.value[key] : TRUE]>>
        flag(key) == IF key \in c.set THEN <<[key |-> key, value |-> <<>>]>> ELSE <<>>
    IN  named("fsname=") \o named("subtype=") \o flag("allow_other") \o flag("allow_root")
        \o flag("default_permissions") \o flag("ro") \o flag("nonempty") \o named("volname=")
        \o [i \in DOMAIN c.extra |-> [key |-> "custom", value |-> c.extra[i]]]

\* The options render drops: the others all give a word.
Dropped(option) == ~macos /\ option.key \in {"nonempty", "volname="}

render(option) ==
    CASE option.key \in Named   -> <<option.key>> \o escape_option_value(option.value)
      [] option.key = "custom"  -> option.value
      [] OTHER                  -> <<option.key>>

\* The argument Session::new_with_config makes: the words, joined by commas.
Argument(c) ==
    LET kept == SelectSeq(build_mount_options(c), LAMBDA option : ~Dropped(option))
    IN  Tail(FlattenSeq([i \in DOMAIN kept |-> <<Comma>> \o render(kept[i])]))

\* libfuse's option parser: commas separate words, a backslash makes the
\* character after it an ordinary one.
Parsed(arg) ==
    LET step(state, c) ==
            CASE state.escaped            -> [state EXCEPT !.escaped = FALSE,
                                                           !.word = Append(@, c)]
              [] ~state.escaped /\ c = Backslash -> [state EXCEPT !.escaped = TRUE]
              [] ~state.escaped /\ c = Comma     -> [state EXCEPT !.words = Append(@, state.word),
                                                           !.word = <<>>]
              [] OTHER                    -> [state EXCEPT !.word = Append(@, c)]
        end == FoldLeft(step, [words |-> <<>>, word |-> <<>>, escaped |-> FALSE], arg)
    IN  Append(end.words, end.word)

------------------------------------------------------------------------------
OptInit ==
    /\ macos \in BOOLEAN
    /\ config = NewConfig
    /\ given = <<>>
    /\ received = <<>>

\* The next word of the command line.
GiveWord(word) ==
    /\ received = <<>> /\ Len(given) < MaxWords
    /\ given' = Append(given, word)
    /\ config' = parse_option_word(config, word)
    /\ UNCHANGED <<macos, received>>

\* Session::new_with_config hands the argument to libfuse.
PassOptions ==
    /\ received = <<>>
    /\ received' = Parsed(Argument(config))
    /\ UNCHANGED <<macos, config, given>>

OptNext == PassOptions \/ \E word \in Words : GiveWord(word)

------------------------------------------------------------------------------
\* The last word given that satisfies Test, as a set of at most one.
LastGiven(Test(_)) ==
    LET at == {i \in DOMAIN given : Test(given[i])}
    IN  {given[i] : i \in {i \in at : \A j \in at : j <= i}}

\* The words libfuse ought to see, but for the extra ones.
Meant ==
    LET last(key) == LastGiven(LAMBDA word : Head(word) = key)
        fsname == last("fsname=")
    IN  (IF fsname = {} THEN {<<"fsname=">> \o Default} ELSE fsname)
        \cup last("subtype=")
        \cup last("allow_other") \cup last("allow_root") \cup {<<"default_permissions">>}
        \cup (LastGiven(LAMBDA word : Head(word) \in {"ro", "rw"}) \ {<<"rw">>})
        \cup (IF macos THEN last("volname=") \cup last("nonempty") ELSE {})

\* libfuse finds in its argument what the command line said, each setting once:
\* the last fsname, subtype and volname, unchanged whatever characters they are
\* made of; ro unless a later rw undid it; the extra words as often as they were
\* given; and nothing that is made of parts of a value.
OptionsArrive ==
    received # <<>> =>
        LET extra(word) == word = <<"noatime">>
            rest == SelectSeq(received, LAMBDA word : ~extra(word))
        IN  /\ {rest[i] : i \in DOMAIN rest} = Meant
            /\ IsInjective(rest)
            /\ Len(received) - Len(rest) = Len(SelectSeq(given, extra))

==============================================================================
