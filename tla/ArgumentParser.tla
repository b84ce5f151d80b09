----------------------------- MODULE ArgumentParser -----------------------------
(***************************************************************************)
(* The command line parser of src/common.                                  *)
(*                                                                         *)
(* A program adds Arguments, each under one or several names, and then     *)
(* calls parse_args once.  parse_args adds the help option and reads the   *)
(* words from left to right: an option, then as many words as the option   *)
(* has nargs, whatever they are.  A step is one call, or one word.         *)
(*                                                                         *)
(* A value is the position of its word in the command line, which tells    *)
(* apart two values with the same text.  Program names and help texts are  *)
(* left out.                                                               *)
(***************************************************************************)
EXTENDS Naturals, Sequences

CONSTANTS Words,         \* the strings that occur, as names or on the command line
          MaxArguments,  \* bound: add_argument calls of the program
          MaxNargs,      \* bound: the nargs of an option
          MaxWords       \* bound: the length of a command line

HelpNames == {"-h", "--help"}

ASSUME WordsAssumption == HelpNames \subseteq Words
ASSUME BoundsAssumption ==
  MaxArguments \in Nat /\ MaxNargs \in Nat /\ MaxWords \in Nat

\* The Arguments by number, in the order of their creation; 0 is NULL.  The help
\* option makes one more than the program.
Arguments == 1 .. MaxArguments + 1
Null == 0

\* A reference to a value past the end of values_.
Wild == MaxWords + 1

VARIABLES
  addHelp,    \* add_help_
  arguments,  \* arguments_: the Argument of each name, or Null
  made,       \* how many Arguments there are
  nargs,      \* Argument::nargs_
  isSet,      \* Argument::set_
  values,     \* Argument::values_
  words,      \* argv from 1
  pos,        \* how many words have been read
  current,    \* the Argument that still wants values, or Null
  left,       \* how many it wants
  pc,         \* what the program is doing
  result      \* what parse_args has come to

optionVars == <<addHelp, arguments, made, nargs>>
readVars   == <<isSet, values, pos, current, left>>
vars       == <<optionVars, readVars, words, pc, result>>

Init ==
  /\ addHelp \in BOOLEAN
  /\ arguments = [w \in Words |-> Null]
  /\ made = 0
  /\ nargs = [a \in Arguments |-> 0]
  /\ isSet = [a \in Arguments |-> FALSE]
  /\ values = [a \in Arguments |-> <<>>]
  /\ words = <<>>
  /\ pos = 0 /\ current = Null /\ left = 0
  /\ pc = "building"
  /\ result = "none"

-----------------------------------------------------------------------------
(* Helpers.                                                                *)

\* Mutant: a name the program has taken is left alone.
BindFree(names) ==
  [w \in Words |-> IF w \in names /\ arguments[w] = Null THEN made + 1 ELSE arguments[w]]

\* arguments_ with the next Argument under all of these names; an Argument
\* that had one of them before loses it.
Bind(names) == [w \in Words |-> IF w \in names THEN made + 1 ELSE arguments[w]]

\* Mutant: values are kept in the opposite order.
Prepended(a) == [values EXCEPT ![a] = <<pos + 1>> \o @]

\* add_value of the next word.
Added(a) == [values EXCEPT ![a] = Append(@, pos + 1)]

\* Mutant: the last option may be short of values.
NothingUnread == pos = Len(words)

\* The loop of parse_args ends without an error.
AllRead == pos = Len(words) /\ left = 0

\* Mutant: <= instead of < in the loop over the values.
OneMore(a) == nargs[a] + 1

\* How many words an option takes as its values.
Wanted(a) == nargs[a]

\* is_set.
IsSet(name) == arguments[name] # Null /\ isSet[arguments[name]]

\* get_value: the index is not compared with the number of values.
GetValue(name, index) ==
  IF arguments[name] = Null THEN Null
  ELSE IF index < Len(values[arguments[name]]) THEN values[arguments[name]][index + 1]
  ELSE Wild

Finish(outcome) ==
  /\ pc' = "done"
  /\ result' = outcome

-----------------------------------------------------------------------------
(* The calls of the program.                                               *)

\* add_argument(names).nargs(n).
AddArgument(names, n) ==
  /\ pc = "building"
  /\ made < MaxArguments
  /\ made' = made + 1
  /\ arguments' = Bind(names)
  /\ nargs' = [nargs EXCEPT ![made + 1] = n]
  /\ UNCHANGED <<addHelp, readVars, words, pc, result>>

\* parse_args begins: it adds the help option over whatever had its names.
ParseArgs(line) ==
  /\ pc = "building"
  /\ words' = line
  /\ pc' = "parsing"
  /\ IF addHelp THEN made' = made + 1 /\ arguments' = Bind(HelpNames)
                ELSE UNCHANGED <<made, arguments>>
  /\ UNCHANGED <<addHelp, nargs, readVars, result>>

-----------------------------------------------------------------------------
(* The loop of parse_args.                                                 *)

\* A word that names an option.
ReadOption ==
  /\ pc = "parsing" /\ left = 0 /\ pos < Len(words)
  /\ LET a == arguments[words[pos + 1]] IN
       /\ a # Null
       /\ isSet' = [isSet EXCEPT ![a] = TRUE]
       /\ left' = Wanted(a)
       /\ current' = IF Wanted(a) = 0 THEN Null ELSE a
  /\ pos' = pos + 1
  /\ UNCHANGED <<optionVars, values, words, pc, result>>

\* Unknown option.
UnknownOption ==
  /\ pc = "parsing" /\ left = 0 /\ pos < Len(words)
  /\ arguments[words[pos + 1]] = Null
  /\ Finish("error")
  /\ UNCHANGED <<optionVars, readVars, words>>

\* A value, whether or not the word names an option.
ReadValue ==
  /\ pc = "parsing" /\ left > 0 /\ pos < Len(words)
  /\ values' = Added(current)
  /\ left' = left - 1
  /\ current' = IF left = 1 THEN Null ELSE current
  /\ pos' = pos + 1
  /\ UNCHANGED <<optionVars, isSet, words, pc, result>>

\* The words run out before the values are complete.  What has been read stays.
RunOut ==
  /\ pc = "parsing" /\ pos = Len(words) /\ ~AllRead
  /\ Finish("error")
  /\ UNCHANGED <<optionVars, readVars, words>>

\* The end of the loop: the help option makes parse_args answer false as well.
EndOfWords ==
  /\ pc = "parsing" /\ AllRead
  /\ Finish(IF addHelp /\ IsSet("-h") THEN "help" ELSE "ok")
  /\ UNCHANGED <<optionVars, readVars, words>>

\* The program goes on with is_set and get_value, which change nothing.
Done == pc = "done" /\ UNCHANGED vars

Next ==
  \/ \E names \in SUBSET Words \ {{}}, n \in 0 .. MaxNargs : AddArgument(names, n)
  \/ \E len \in 0 .. MaxWords : \E line \in [1 .. len -> Words] : ParseArgs(line)
  \/ ReadOption \/ UnknownOption \/ ReadValue \/ RunOut \/ EndOfWords
  \/ Done

Spec == Init /\ [][Next]_vars

-----------------------------------------------------------------------------
(* Properties.                                                             *)

\* Types; values are wanted for an Argument that is set, and for no other.
TypeOK ==
  /\ addHelp \in BOOLEAN
  /\ made \in 0 .. MaxArguments + 1
  /\ pc = "building" => made <= MaxArguments /\ pos = 0 /\ left = 0
  /\ arguments \in [Words -> 0 .. made]
  /\ nargs \in [Arguments -> 0 .. MaxNargs]
  /\ isSet \in [Arguments -> BOOLEAN]
  /\ values \in [Arguments -> Seq(Nat)]
  /\ words \in Seq(Words)
  /\ pos \in 0 .. Len(words)
  /\ current \in 0 .. made
  /\ left \in 0 .. MaxNargs
  /\ current # Null <=> left > 0
  /\ current # Null => isSet[current]
  /\ pc \in {"building", "parsing", "done"}
  /\ result \in {"none", "ok", "help", "error"}
  /\ result = "none" <=> pc # "done"

\* The Argument that the word at i names.
ArgumentAt(i) == arguments[words[i]]

\* The words of an option at i: its name and its values.
Stretch(i) == i .. i + nargs[ArgumentAt(i)]

\* A command line is the options at the positions P, each with all of its
\* values, and nothing else.
Sentence(P) ==
  /\ \A i \in P : ArgumentAt(i) # Null /\ Stretch(i) \subseteq 1 .. Len(words)
  /\ \A j \in 1 .. Len(words) : \E i \in P : j \in Stretch(i)
  /\ \A i, k \in P : i # k => Stretch(i) \cap Stretch(k) = {}

Positions == SUBSET (1 .. Len(words))

\* "true if the passed arguments could be parsed without errors": parse_args
\* reports an error exactly when the line is no sequence of options.
AcceptsSentences ==
  pc = "done" => (result # "error" <=> \E P \in Positions : Sentence(P))

\* The values of an Argument, when the options are at P.
ValuesOf(a, P) ==
  {j \in 1 .. Len(words) \ P : \E i \in P : ArgumentAt(i) = a /\ j \in Stretch(i)}

\* After a parse without errors the options of the line, under any of their
\* names, are set and no others, and each has the values of all its occurrences,
\* and only these, in their order; option names taken as values included.
ValuesInOrder ==
  pc = "done" /\ result # "error" =>
    \A P \in Positions : Sentence(P) =>
      \A a \in 1 .. made :
        /\ isSet[a] <=> \E i \in P : ArgumentAt(i) = a
        /\ {values[a][x] : x \in DOMAIN values[a]} = ValuesOf(a, P)
        /\ \A x, y \in DOMAIN values[a] : x < y => values[a][x] < values[a][y]

\* The words run out within the values of an option that is the Argument a.
CutOff(a) ==
  \E i \in 1 .. Len(words) : ArgumentAt(i) = a /\ Len(words) \in i .. i + nargs[a] - 1

\* The usage the header shows (parse, is_set, get_value) does not look at what parse_args
\* returned.  Whatever that was, get_value of an option that is set returns a value for
\* each of its nargs; or else parse_args has reported an error, and the words ran out
\* within an occurrence of this very option.
SetOptionsHaveValues ==
  pc = "done" =>
    \A name \in Words : IsSet(name) =>
      \/ \A k \in 0 .. nargs[arguments[name]] - 1 : GetValue(name, k) \in 1 .. Len(words)
      \/ result = "error" /\ CutOff(arguments[name])

\* "... and without occurrence of the help argument": when parse_args returns
\* true neither -h nor --help was given, other than as the value of an option,
\* whatever the program has called -h itself.
NoHelpAsked ==
  result = "ok" /\ addHelp =>
    \A P \in Positions : Sentence(P) => \A i \in P : words[i] \notin HelpNames

====
