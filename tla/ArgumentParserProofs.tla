------------------------- MODULE ArgumentParserProofs -------------------------
(***************************************************************************)
(* Proofs about ArgumentParser, for any names, nargs and command lines.    *)
(*                                                                         *)
(* The inductive invariant describes the words read so far: there is one   *)
(* way only to take them for options and values (Reading), every whole     *)
(* reading of the line extends it, and the Arguments hold what it says.    *)
(***************************************************************************)
EXTENDS ArgumentParser, TLAPS

\* The options read so far are those at P, the last of them may want more values.
Covers(P) ==
  /\ P \subseteq 1 .. pos
  /\ \A i \in P : ArgumentAt(i) # Null /\ i + nargs[ArgumentAt(i)] <= pos + left
  /\ \A j \in 1 .. pos : \E i \in P : j \in Stretch(i)
  /\ \A i, k \in P : i # k => Stretch(i) \cap Stretch(k) = {}
  /\ left > 0 => \E i \in P : /\ ArgumentAt(i) = current
                              /\ i + nargs[current] = pos + left

\* The Arguments hold what has been read.
Holds(P) ==
  \A a \in Arguments :
    /\ isSet[a] <=> \E i \in P : ArgumentAt(i) = a
    /\ \A x \in 1 .. Len(values[a]) : values[a][x] \in 1 .. pos
    /\ \A j \in 1 .. pos :
         (\E x \in 1 .. Len(values[a]) : values[a][x] = j)
           <=> j \notin P /\ \E i \in P : ArgumentAt(i) = a /\ j \in Stretch(i)
    /\ \A x, y \in 1 .. Len(values[a]) : x < y => values[a][x] < values[a][y]

\* Every reading of the whole line begins with P.
Forced(P) == \A Q \in Positions : Sentence(Q) => Q \cap (1 .. pos) = P

Reading(P) == Covers(P) /\ Holds(P) /\ Forced(P)

\* Before parse_args nothing has been read.
NothingRead ==
  pc = "building" => /\ pos = 0 /\ left = 0 /\ words = <<>>
                     /\ \A a \in Arguments : ~isSet[a] /\ values[a] = <<>>

\* An Argument that is set has its values, up to those it still wants.
SetArgumentsHaveValues ==
  \A a \in Arguments :
    isSet[a] => Len(values[a]) + (IF a = current THEN left ELSE 0) >= nargs[a]

\* Values are short in the end only when the words have run out.
ShortAtEnd == pc = "done" /\ left > 0 => result = "error" /\ pos = Len(words)

\* The help option has both its names.
HelpBound ==
  pc # "building" /\ addHelp =>
    arguments["-h"] # Null /\ arguments["--help"] = arguments["-h"]

\* How parse_args ends.
Outcomes ==
  /\ result \in {"ok", "help"} => AllRead
  /\ result = "ok" /\ addHelp => ~IsSet("-h")
  /\ result = "error" => \A Q \in Positions : ~Sentence(Q)

IInv ==
  /\ NothingRead
  /\ pc # "building" => \E P \in Positions : Reading(P)
  /\ HelpBound
  /\ Outcomes

-----------------------------------------------------------------------------

\* The types, and for which Argument values are wanted.
THEOREM TypeCorrect == Spec => []TypeOK
<1>1. Init => TypeOK
  BY BoundsAssumption DEF Init, TypeOK, Null, Arguments
<1>2. TypeOK /\ [Next]_vars => TypeOK'
  <2> SUFFICES ASSUME TypeOK, [Next]_vars PROVE TypeOK'
    OBVIOUS
  <2> USE BoundsAssumption DEF TypeOK, Null, Arguments
  <2>1. ASSUME NEW names \in SUBSET Words, NEW n \in 0 .. MaxNargs,
               AddArgument(names, n)
        PROVE TypeOK'
    BY <2>1 DEF AddArgument, Bind, readVars
  <2>2. ASSUME NEW len \in 0 .. MaxWords, NEW line \in [1 .. len -> Words],
               ParseArgs(line)
        PROVE TypeOK'
    <3>1. line \in Seq(Words)
      OBVIOUS
    <3>2. Len(line) \in Nat
      BY <3>1
    <3>3. pos' \in 0 .. Len(words')
      BY <2>2, <3>1 DEF ParseArgs, readVars
    <3>4. made' \in 0 .. MaxArguments + 1 /\ arguments' \in [Words -> 0 .. made']
      <4>1. made \in 0 .. MaxArguments
        BY <2>2 DEF ParseArgs
      <4>2. CASE addHelp
        <5>1. made' = made + 1 /\ arguments' = Bind(HelpNames)
          BY <2>2, <4>2 DEF ParseArgs
        <5>2. arguments \in [Words -> 0 .. made]
          OBVIOUS
        <5> QED BY <4>1, <5>1, <5>2 DEF Bind
      <4>3. CASE ~addHelp
        BY <2>2, <4>1, <4>3 DEF ParseArgs
      <4> QED BY <4>2, <4>3
    <3>5. current' \in 0 .. made' /\ UNCHANGED <<addHelp, nargs, isSet, values, left, current>>
      BY <2>2 DEF ParseArgs, readVars
    <3>6. words' \in Seq(Words) /\ pc' = "parsing" /\ result' = "none"
      BY <2>2, <3>1 DEF ParseArgs
    <3>7. ~(pc' = "building" \/ pc' = "done")
      BY <3>6
    <3> QED BY <3>3, <3>4, <3>5, <3>6, <3>7
  <2>3. ASSUME ReadOption PROVE TypeOK'
    <3> DEFINE a == arguments[words[pos + 1]]
    <3>1. words[pos + 1] \in Words
      BY <2>3 DEF ReadOption
    <3>2. a \in 1 .. made /\ a \in Arguments
      BY <2>3, <3>1 DEF ReadOption
    <3>3. nargs[a] \in 0 .. MaxNargs
      BY <3>2
    <3>4. pos' \in 0 .. Len(words') 
      BY <2>3 DEF ReadOption
    <3>8. UNCHANGED <<addHelp, arguments, made, nargs, values, words, pc, result>>
      BY <2>3 DEF ReadOption, optionVars
    <3>5. isSet' \in [Arguments -> BOOLEAN] /\ isSet'[a]
      BY <2>3, <3>2 DEF ReadOption
    <3>6. left' = nargs[a] /\ current' = IF nargs[a] = 0 THEN 0 ELSE a
      BY <2>3 DEF ReadOption, Wanted
    <3>7. pc = "parsing"
      BY <2>3 DEF ReadOption
    <3> HIDE DEF a
    <3>9. left' \in 0 .. MaxNargs /\ current' \in 0 .. made'
      BY <3>2, <3>3, <3>6, <3>8
    <3>10. (current' # 0 <=> left' > 0) /\ (current' # 0 => isSet'[current'])
      BY <3>2, <3>3, <3>5, <3>6
    <3> QED BY <3>4, <3>5, <3>7, <3>8, <3>9, <3>10
  <2>4. ASSUME UnknownOption PROVE TypeOK'
    BY <2>4 DEF UnknownOption, Finish, optionVars, readVars
  <2>5. ASSUME ReadValue PROVE TypeOK'
    <3>1. current \in 1 .. made /\ current \in Arguments /\ pos + 1 \in Nat
      BY <2>5 DEF ReadValue
    <3>2. values' \in [Arguments -> Seq(Nat)]
      BY <2>5, <3>1 DEF ReadValue, Added
    <3>3. pos' \in 0 .. Len(words') 
      BY <2>5 DEF ReadValue
    <3>6. UNCHANGED <<addHelp, arguments, made, nargs, isSet, words, pc, result>>
      BY <2>5 DEF ReadValue, optionVars
    <3>4. left' \in 0 .. MaxNargs /\ current' = IF left = 1 THEN 0 ELSE current
      BY <2>5 DEF ReadValue
    <3>5. left' = left - 1 /\ pc = "parsing"
      BY <2>5 DEF ReadValue
    <3>7. current' \in 0 .. made' /\ (current' # 0 <=> left' > 0)
      BY <3>1, <3>4, <3>5, <3>6
    <3>8. current' # 0 => isSet'[current']
      BY <3>4, <3>6
    <3> QED BY <3>2, <3>3, <3>4, <3>5, <3>6, <3>7, <3>8
  <2>6. ASSUME RunOut PROVE TypeOK'
    BY <2>6 DEF RunOut, Finish, optionVars, readVars
  <2>7. ASSUME EndOfWords PROVE TypeOK'
    BY <2>7 DEF EndOfWords, Finish, optionVars, readVars
  <2>8. CASE UNCHANGED vars
    BY <2>8 DEF vars, optionVars, readVars
  <2> QED BY <2>1, <2>2, <2>3, <2>4, <2>5, <2>6, <2>7, <2>8 DEF Next, Done
<1> QED BY <1>1, <1>2, PTL DEF Spec

-----------------------------------------------------------------------------
(* get_value of an option that is set.                                     *)

\* Before parse_args no Argument is set or has values, and no word is read.
LEMMA NothingReadYet == Spec => []NothingRead
<1>1. Init => NothingRead
  BY DEF Init, NothingRead
<1>2. NothingRead /\ [Next]_vars => NothingRead'
  <2> SUFFICES ASSUME NothingRead, [Next]_vars, pc' = "building"
               PROVE  /\ pos' = 0 /\ left' = 0 /\ words' = <<>>
                      /\ \A a \in Arguments : ~isSet'[a] /\ values'[a] = <<>>
    BY DEF NothingRead
  <2>1. pc = "building" /\ UNCHANGED <<readVars, words>>
    BY DEF Next, AddArgument, ParseArgs, ReadOption, UnknownOption, ReadValue,
           RunOut, EndOfWords, Finish, Done, vars
  <2> QED BY <2>1 DEF NothingRead, readVars
<1> QED BY <1>1, <1>2, PTL DEF Spec

\* No Argument that is set is short of values, but the one being read.
LEMMA ValuesComplete ==
  Spec => [](SetArgumentsHaveValues /\ ShortAtEnd)
<1> DEFINE I == SetArgumentsHaveValues /\ ShortAtEnd
<1>1. Init => I
  BY DEF Init, SetArgumentsHaveValues, ShortAtEnd
<1>2. TypeOK /\ NothingRead /\ I /\ [Next]_vars => I'
  <2> SUFFICES ASSUME TypeOK, NothingRead, I, [Next]_vars PROVE I'
    OBVIOUS
  <2> USE DEF Null
  <2>1. ASSUME NEW names \in SUBSET Words, NEW n \in 0 .. MaxNargs,
               AddArgument(names, n)
        PROVE I'
    <3>1. \A a \in Arguments : ~isSet'[a]
      BY <2>1 DEF AddArgument, readVars, NothingRead
    <3>2. left' = 0
      BY <2>1 DEF AddArgument, readVars, NothingRead
    <3> QED BY <2>1, <3>1, <3>2 DEF SetArgumentsHaveValues, ShortAtEnd, AddArgument
  <2>2. ASSUME NEW len \in 0 .. MaxWords, NEW line \in [1 .. len -> Words],
               ParseArgs(line)
        PROVE I'
    BY <2>2 DEF ParseArgs, readVars, SetArgumentsHaveValues, ShortAtEnd
  <2>3. ASSUME ReadOption PROVE I'
    <3> DEFINE a == arguments[words[pos + 1]]
    <3>1. /\ a # 0 /\ left = 0 /\ pc' # "done"
          /\ isSet' = [isSet EXCEPT ![a] = TRUE]
          /\ left' = nargs[a] /\ current' = IF nargs[a] = 0 THEN 0 ELSE a
          /\ UNCHANGED <<nargs, values>>
      BY <2>3 DEF ReadOption, Wanted, optionVars, TypeOK
    <3> HIDE DEF a
    <3> SUFFICES ASSUME NEW b \in Arguments, isSet'[b]
                 PROVE  Len(values[b]) + (IF b = current' THEN left' ELSE 0) >= nargs[b]
      BY <3>1 DEF SetArgumentsHaveValues, ShortAtEnd
    <3>2. Len(values[b]) \in Nat /\ nargs[b] \in Nat
      BY DEF TypeOK
    <3>3. CASE b = a
      BY <3>1, <3>2, <3>3
    <3>4. CASE b # a
      <4>1. isSet[b] /\ b # current'
        BY <3>1, <3>4 DEF TypeOK, Arguments
      <4> QED BY <3>1, <3>2, <4>1 DEF SetArgumentsHaveValues
    <3> QED BY <3>3, <3>4
  <2>4. ASSUME UnknownOption PROVE I'
    BY <2>4 DEF UnknownOption, Finish, optionVars, readVars, SetArgumentsHaveValues, ShortAtEnd
  <2>5. ASSUME ReadValue PROVE I'
    <3>1. /\ left \in Nat \ {0} /\ left' = left - 1 /\ pc' # "done"
          /\ values' = [values EXCEPT ![current] = Append(@, pos + 1)]
          /\ current' = IF left = 1 THEN 0 ELSE current
          /\ UNCHANGED <<nargs, isSet>>
      BY <2>5 DEF ReadValue, Added, optionVars, TypeOK
    <3> SUFFICES ASSUME NEW b \in Arguments, isSet[b]
                 PROVE  Len(values'[b]) + (IF b = current' THEN left' ELSE 0) >= nargs[b]
      BY <3>1 DEF SetArgumentsHaveValues, ShortAtEnd
    <3>2. values[b] \in Seq(Nat) /\ nargs[b] \in Nat /\ pos + 1 \in Nat
      BY DEF TypeOK
    <3>3. CASE b = current
      <4>1. Len(values'[b]) = Len(values[b]) + 1
        BY <3>1, <3>2, <3>3 DEF TypeOK
      <4>2. Len(values[b]) + left >= nargs[b]
        BY <3>3 DEF SetArgumentsHaveValues
      <4>3. b # 0
        BY DEF Arguments
      <4>4. Len(values[b]) \in Nat
        BY <3>2
      <4>5. CASE left = 1
        BY <3>1, <3>2, <3>3, <4>1, <4>2, <4>3, <4>4, <4>5
      <4>6. CASE left # 1
        <5>1. b = current' /\ left' = left - 1
          BY <3>1, <3>3, <4>6
        <5> QED BY <3>1, <3>2, <4>1, <4>2, <4>4, <5>1
      <4> QED BY <4>5, <4>6
    <3>4. CASE b # current
      <4>1. values'[b] = values[b] /\ b # current'
        BY <3>1, <3>4 DEF TypeOK, Arguments
      <4>2. Len(values[b]) >= nargs[b]
        BY <3>2, <3>4 DEF SetArgumentsHaveValues
      <4> QED BY <3>2, <4>1, <4>2
    <3> QED BY <3>3, <3>4
  <2>6. ASSUME RunOut PROVE I'
    BY <2>6 DEF RunOut, AllRead, Finish, optionVars, readVars, SetArgumentsHaveValues, ShortAtEnd
  <2>7. ASSUME EndOfWords PROVE I'
    BY <2>7 DEF EndOfWords, AllRead, Finish, optionVars, readVars, SetArgumentsHaveValues, ShortAtEnd
  <2>8. CASE UNCHANGED vars
    BY <2>8 DEF vars, optionVars, readVars, SetArgumentsHaveValues, ShortAtEnd
  <2> QED BY <2>1, <2>2, <2>3, <2>4, <2>5, <2>6, <2>7, <2>8 DEF Next, Done
<1> QED BY <1>1, <1>2, TypeCorrect, NothingReadYet, PTL DEF Spec

-----------------------------------------------------------------------------
(* The reading of the words.                                               *)

\* What a reading depends on, besides pos, left, isSet and values.
LineSame == UNCHANGED <<arguments, nargs, words>>

\* The positions of a line and its readings are those of the next state.
LEMMA SameSentences ==
  ASSUME LineSame
  PROVE  /\ \A i : ArgumentAt(i)' = ArgumentAt(i) /\ Stretch(i)' = Stretch(i)
         /\ Positions' = Positions
         /\ \A Q : Sentence(Q)' <=> Sentence(Q)
<1> USE DEF LineSame
<1>1. \A i : ArgumentAt(i)' = ArgumentAt(i)
  BY DEF ArgumentAt
<1>2. \A i : Stretch(i)' = Stretch(i)
  BY <1>1 DEF Stretch
<1>3. Positions' = Positions
  BY DEF Positions
<1> QED BY <1>1, <1>2, <1>3 DEF Sentence

\* What has been read is still read when neither the line nor the Arguments change.
LEMMA ReadingStays ==
  ASSUME LineSame, UNCHANGED readVars, NEW P
  PROVE  Reading(P)' <=> Reading(P)
<1>1. /\ \A i : ArgumentAt(i)' = ArgumentAt(i) /\ Stretch(i)' = Stretch(i)
      /\ Positions' = Positions
      /\ \A Q : Sentence(Q)' <=> Sentence(Q)
  BY SameSentences
<1>2. Covers(P)' <=> Covers(P)
  BY <1>1 DEF Covers, readVars, LineSame
<1>3. Holds(P)' <=> Holds(P)
  BY <1>1 DEF Holds, readVars
<1>4. Forced(P)' <=> Forced(P)
  BY <1>1 DEF Forced, readVars
<1> QED BY <1>2, <1>3, <1>4 DEF Reading

\* The numbers behind the words read so far and the next one.
LEMMA NextWord ==
  ASSUME TypeOK, pos < Len(words)
  PROVE  /\ pos \in Nat /\ pos + 1 \in 1 .. Len(words)
         /\ words[pos + 1] \in Words
         /\ ArgumentAt(pos + 1) \in 0 .. made
         /\ made <= MaxArguments + 1
<1>1. pos \in Nat /\ Len(words) \in Nat /\ pos + 1 \in 1 .. Len(words)
  BY DEF TypeOK
<1>2. words[pos + 1] \in Words
  BY <1>1 DEF TypeOK
<1> QED BY <1>1, <1>2 DEF TypeOK, ArgumentAt

\* An option the line names is an Argument with a number of values.
LEMMA OptionTypes ==
  ASSUME TypeOK, NEW i \in 1 .. Len(words), ArgumentAt(i) # Null
  PROVE  ArgumentAt(i) \in Arguments /\ nargs[ArgumentAt(i)] \in Nat
<1>1. words[i] \in Words
  BY DEF TypeOK
<1>2. ArgumentAt(i) \in 0 .. made /\ made \in 0 .. MaxArguments + 1
  BY <1>1 DEF TypeOK, ArgumentAt
<1>3. ArgumentAt(i) \in Arguments
  BY <1>2, BoundsAssumption DEF Arguments, Null
<1> QED BY <1>3 DEF TypeOK

\* When no value is wanted, the next word of every whole reading is an option.
LEMMA NextIsOption ==
  ASSUME TypeOK, pos < Len(words), left = 0,
         NEW P \in Positions, Covers(P), Forced(P),
         NEW Q \in Positions, Sentence(Q)
  PROVE  pos + 1 \in Q
<1>1. pos + 1 \in 1 .. Len(words) /\ pos \in Nat
  BY NextWord
<1>2. PICK i \in Q : pos + 1 \in Stretch(i)
  BY <1>1 DEF Sentence
<1>3. i \in 1 .. Len(words) /\ ArgumentAt(i) # Null
  BY DEF Sentence, Positions
<1>4. nargs[ArgumentAt(i)] \in Nat
  BY <1>3, OptionTypes
<1>5. i <= pos + 1 /\ pos + 1 <= i + nargs[ArgumentAt(i)]
  BY <1>1, <1>2, <1>3, <1>4 DEF Stretch
<1>6. CASE i <= pos
  <2>1. i \in P
    BY <1>3, <1>6, <1>1 DEF Forced
  <2>2. i + nargs[ArgumentAt(i)] <= pos
    BY <2>1, <1>1 DEF Covers
  <2> QED BY <2>2, <1>1, <1>3, <1>4, <1>5
<1>7. CASE i = pos + 1
  BY <1>7
<1> QED BY <1>1, <1>3, <1>5, <1>6, <1>7

\* When values are wanted, an option read before wants the next word.
LEMMA NextIsValue ==
  ASSUME TypeOK, left > 0, NEW P \in Positions, Covers(P)
  PROVE  \E i \in P : /\ ArgumentAt(i) = current /\ i <= pos
                      /\ i \in 1 .. Len(words)
                      /\ nargs[current] \in Nat
                      /\ i + nargs[current] = pos + left
                      /\ pos + 1 \in Stretch(i)
<1>1. PICK i \in P : ArgumentAt(i) = current /\ i + nargs[current] = pos + left
  BY DEF Covers
<1>2. i \in 1 .. Len(words) /\ i \in 1 .. pos /\ ArgumentAt(i) # Null
  BY DEF Covers, Positions
<1>3. nargs[current] \in Nat
  BY <1>1, <1>2, OptionTypes
<1>4. pos \in Nat /\ left \in Nat
  BY BoundsAssumption DEF TypeOK
<1>5. pos + 1 \in Stretch(i)
  BY <1>1, <1>2, <1>3, <1>4 DEF Stretch
<1> QED BY <1>1, <1>2, <1>3, <1>5

\* parse_args begins with the empty reading.
LEMMA ReadingBegins ==
  ASSUME TypeOK, NothingRead, NEW len \in 0 .. MaxWords,
         NEW line \in [1 .. len -> Words], ParseArgs(line)
  PROVE  \E P \in Positions' : Reading(P)'
<1>1. /\ pos = 0 /\ left = 0 /\ pos' = 0 /\ left' = 0
      /\ \A a \in Arguments : ~isSet'[a] /\ values'[a] = <<>>
  BY DEF ParseArgs, NothingRead, readVars
<1>2. 1 .. pos' = {}
  BY <1>1
<1>3. Covers({})'
  BY <1>1, <1>2 DEF Covers
<1>4. Holds({})'
  BY <1>1, <1>2 DEF Holds
<1>5. Forced({})'
  BY <1>2 DEF Forced
<1> QED BY <1>3, <1>4, <1>5 DEF Reading, Positions

\* Reading an option adds its position.
LEMMA ReadingTakesOption ==
  ASSUME TypeOK, NEW P \in Positions, Reading(P), ReadOption,
         NEW R, R = P \cup {pos + 1}
  PROVE  Reading(R)' /\ R \in Positions'
<1> DEFINE n == pos + 1
           a == ArgumentAt(n)
<1> USE DEF Reading
<1>1. /\ left = 0 /\ pos < Len(words) /\ a # Null /\ pos' = n
      /\ isSet' = [isSet EXCEPT ![a] = TRUE] /\ values' = values
      /\ left' = nargs[a] /\ current' = IF nargs[a] = 0 THEN Null ELSE a
      /\ LineSame
  BY DEF ReadOption, Wanted, ArgumentAt, optionVars, LineSame
<1>2. n \in 1 .. Len(words) /\ pos \in Nat
  BY <1>1, NextWord
<1>3. a \in Arguments /\ nargs[a] \in Nat
  BY <1>1, <1>2, OptionTypes
<1>4. /\ \A i : ArgumentAt(i)' = ArgumentAt(i) /\ Stretch(i)' = Stretch(i)
      /\ Positions' = Positions
      /\ \A Q : Sentence(Q)' <=> Sentence(Q)
  BY <1>1, SameSentences
<1>5. \A i \in P : /\ i \in 1 .. pos /\ ArgumentAt(i) # Null
                   /\ nargs[ArgumentAt(i)] \in Nat
                   /\ i + nargs[ArgumentAt(i)] <= pos
  <2> SUFFICES ASSUME NEW i \in P
               PROVE  /\ i \in 1 .. pos /\ ArgumentAt(i) # Null
                      /\ nargs[ArgumentAt(i)] \in Nat
                      /\ i + nargs[ArgumentAt(i)] <= pos
    OBVIOUS
  <2>1. i \in 1 .. pos /\ i \in 1 .. Len(words) /\ ArgumentAt(i) # Null
    BY DEF Covers, Positions
  <2>2. nargs[ArgumentAt(i)] \in Nat
    BY <2>1, OptionTypes
  <2>3. i + nargs[ArgumentAt(i)] <= pos + left
    BY DEF Covers
  <2> QED BY <2>1, <2>2, <2>3, <1>1, <1>2
<1>6. Stretch(n) = n .. n + nargs[a]
  BY DEF Stretch
<1>7. \A i \in P : Stretch(i) \subseteq 1 .. pos
  BY <1>2, <1>5 DEF Stretch
<1>8. n \notin P
  BY <1>2, <1>5
<1> HIDE DEF a
<1>9. Covers(R)'
  <2>1. R \subseteq 1 .. pos'
    BY <1>1, <1>2, <1>5
  <2>2. \A i \in R : /\ ArgumentAt(i) # Null
                     /\ i + nargs[ArgumentAt(i)] <= pos' + left'
    BY <1>1, <1>2, <1>3, <1>5 DEF a
  <2>3. \A j \in 1 .. pos' : \E i \in R : j \in Stretch(i)
    <3> SUFFICES ASSUME NEW j \in 1 .. pos' PROVE \E i \in R : j \in Stretch(i)
      OBVIOUS
    <3>1. CASE j <= pos
      BY <3>1, <1>2 DEF Covers
    <3>2. CASE j = n
      BY <3>2, <1>2, <1>3, <1>6
    <3> QED BY <3>1, <3>2, <1>1, <1>2
  <2>4. \A i, k \in R : i # k => Stretch(i) \cap Stretch(k) = {}
    <3>1. \A i \in P : Stretch(i) \cap Stretch(n) = {}
      BY <1>2, <1>3, <1>6, <1>7
    <3> QED BY <3>1 DEF Covers
  <2>5. left' > 0 => \E i \in R : ArgumentAt(i) = current' /\ i + nargs[current'] = pos' + left'
    BY <1>1, <1>3 DEF a
  <2> QED BY <2>1, <2>2, <2>3, <2>4, <2>5, <1>1, <1>4 DEF Covers, LineSame
<1>10. Holds(R)'
  <2> SUFFICES ASSUME NEW b \in Arguments
               PROVE
                 /\ isSet'[b] <=> \E i \in R : ArgumentAt(i) = b
                 /\ \A x \in 1 .. Len(values[b]) : values[b][x] \in 1 .. pos'
                 /\ \A j \in 1 .. pos' :
                      (\E x \in 1 .. Len(values[b]) : values[b][x] = j)
                        <=> j \notin R /\ \E i \in R : ArgumentAt(i) = b /\ j \in Stretch(i)
                 /\ \A x, y \in 1 .. Len(values[b]) : x < y => values[b][x] < values[b][y]
    BY <1>1, <1>4 DEF Holds
  <2>1. isSet'[b] <=> \E i \in R : ArgumentAt(i) = b
    <3>1. isSet'[b] <=> b = a \/ isSet[b]
      BY <1>1, <1>3 DEF TypeOK
    <3>2. isSet[b] <=> \E i \in P : ArgumentAt(i) = b
      BY DEF Holds
    <3> QED BY <3>1, <3>2 DEF a
  <2>2. \A x \in 1 .. Len(values[b]) : values[b][x] \in 1 .. pos
    BY DEF Holds
  <2>3. ASSUME NEW j \in 1 .. pos'
        PROVE  (\E x \in 1 .. Len(values[b]) : values[b][x] = j)
                 <=> j \notin R /\ \E i \in R : ArgumentAt(i) = b /\ j \in Stretch(i)
    <3>1. CASE j = n
      BY <3>1, <2>2, <1>2
    <3>2. CASE j \in 1 .. pos
      <4>1. j \notin Stretch(n) /\ j # n
        BY <3>2, <1>2, <1>3, <1>6
      <4>2. (\E x \in 1 .. Len(values[b]) : values[b][x] = j)
              <=> j \notin P /\ \E i \in P : ArgumentAt(i) = b /\ j \in Stretch(i)
        BY <3>2 DEF Holds
      <4> QED BY <4>1, <4>2
    <3> QED BY <3>1, <3>2, <1>1, <1>2
  <2>4. \A x, y \in 1 .. Len(values[b]) : x < y => values[b][x] < values[b][y]
    BY DEF Holds
  <2>5. 1 .. pos \subseteq 1 .. pos'
    BY <1>1, <1>2
  <2> QED BY <2>1, <2>2, <2>3, <2>4, <2>5
<1>11. Forced(R)'
  <2> SUFFICES ASSUME NEW Q \in Positions, Sentence(Q)
               PROVE  Q \cap (1 .. n) = R
    BY <1>1, <1>4 DEF Forced
  <2>1. n \in Q
    BY <1>1, NextIsOption
  <2>2. Q \cap (1 .. pos) = P
    BY DEF Forced
  <2>3. 1 .. n = (1 .. pos) \cup {n}
    BY <1>2
  <2> QED BY <2>1, <2>2, <2>3
<1> QED BY <1>4, <1>9, <1>10, <1>11, <1>2 DEF Positions

\* Reading a value leaves the options as they are.
LEMMA ReadingTakesValue ==
  ASSUME TypeOK, NEW P \in Positions, Reading(P), ReadValue
  PROVE  Reading(P)'
<1> DEFINE n == pos + 1
<1> USE DEF Reading
<1>1. /\ left > 0 /\ pos < Len(words) /\ pos' = n /\ left' = left - 1
      /\ values' = [values EXCEPT ![current] = Append(@, n)]
      /\ current' = IF left = 1 THEN Null ELSE current
      /\ UNCHANGED isSet /\ LineSame
  BY DEF ReadValue, Added, optionVars, LineSame
<1>2. n \in 1 .. Len(words) /\ pos \in Nat /\ left \in Nat
  BY <1>1, NextWord DEF TypeOK
<1>3. PICK c \in P : /\ ArgumentAt(c) = current /\ c <= pos /\ c \in 1 .. Len(words)
                     /\ nargs[current] \in Nat
                     /\ c + nargs[current] = pos + left
                     /\ n \in Stretch(c)
  BY <1>1, NextIsValue
<1>4. /\ \A i : ArgumentAt(i)' = ArgumentAt(i) /\ Stretch(i)' = Stretch(i)
      /\ Positions' = Positions
      /\ \A Q : Sentence(Q)' <=> Sentence(Q)
  BY <1>1, SameSentences
<1>5. P \subseteq 1 .. pos /\ n \notin P /\ pos' + left' = pos + left
  BY <1>1, <1>2 DEF Covers
<1>6. current \in Arguments
  <2>1. current # Null /\ current \in 0 .. made /\ made \in 0 .. MaxArguments + 1
    BY <1>1 DEF TypeOK
  <2> QED BY <2>1, BoundsAssumption DEF Arguments, Null
<1>7. Covers(P)'
  <2>1. \A j \in 1 .. n : \E i \in P : j \in Stretch(i)
    <3> SUFFICES ASSUME NEW j \in 1 .. n PROVE \E i \in P : j \in Stretch(i)
      OBVIOUS
    <3>1. CASE j <= pos
      BY <3>1, <1>2 DEF Covers
    <3>2. CASE j = n
      BY <3>2, <1>3
    <3> QED BY <3>1, <3>2, <1>2
  <2>2. left' > 0 => \E i \in P : ArgumentAt(i) = current' /\ i + nargs[current'] = pos' + left'
    <3>1. left' > 0 => current' = current
      BY <1>1, <1>2
    <3> QED BY <3>1, <1>3, <1>5
  <2>3. P \subseteq 1 .. pos'
    BY <1>1, <1>2, <1>5
  <2>4. \A i \in P : ArgumentAt(i) # Null /\ i + nargs[ArgumentAt(i)] <= pos' + left'
    BY <1>5 DEF Covers
  <2>5. \A i, k \in P : i # k => Stretch(i) \cap Stretch(k) = {}
    BY DEF Covers
  <2> QED BY <2>1, <2>2, <2>3, <2>4, <2>5, <1>1, <1>4 DEF Covers, LineSame
<1>8. Holds(P)'
  <2> SUFFICES ASSUME NEW b \in Arguments
               PROVE
                 /\ isSet[b] <=> \E i \in P : ArgumentAt(i) = b
                 /\ \A x \in 1 .. Len(values'[b]) : values'[b][x] \in 1 .. n
                 /\ \A j \in 1 .. n :
                      (\E x \in 1 .. Len(values'[b]) : values'[b][x] = j)
                        <=> j \notin P /\ \E i \in P : ArgumentAt(i) = b /\ j \in Stretch(i)
                 /\ \A x, y \in 1 .. Len(values'[b]) :
                      x < y => values'[b][x] < values'[b][y]
    BY <1>1, <1>4 DEF Holds
  <2>1. isSet[b] <=> \E i \in P : ArgumentAt(i) = b
    BY DEF Holds
  <2>2. /\ values[b] \in Seq(Nat)
        /\ \A x \in 1 .. Len(values[b]) : values[b][x] \in 1 .. pos
        /\ \A j \in 1 .. pos :
             (\E x \in 1 .. Len(values[b]) : values[b][x] = j)
               <=> j \notin P /\ \E i \in P : ArgumentAt(i) = b /\ j \in Stretch(i)
        /\ \A x, y \in 1 .. Len(values[b]) : x < y => values[b][x] < values[b][y]
    BY DEF Holds, TypeOK
  <2>3. 1 .. n = (1 .. pos) \cup {n} /\ n \notin 1 .. pos /\ \A m \in 1 .. pos : m < n
    BY <1>2
  <2>4. CASE b = current
    <3>1. values'[b] = Append(values[b], n)
      BY <1>1, <1>6, <2>4 DEF TypeOK
    <3> DEFINE l == Len(values[b])
    <3>2. /\ l \in Nat /\ l = Len(values[b]) /\ Len(values'[b]) = l + 1
          /\ \A x \in 1 .. l : values'[b][x] = values[b][x]
          /\ values'[b][l + 1] = n
      <4>1. values[b] \in Seq(Nat) /\ n \in Nat
        BY <2>2, <1>2
      <4> QED BY <3>1, <4>1
    <3> HIDE DEF l
    <3>3. 1 .. l + 1 = (1 .. l) \cup {l + 1} /\ \A x, y \in 1 .. l + 1 : x < y => x \in 1 .. l
      BY <3>2
    <3>4. \A x \in 1 .. l + 1 : values'[b][x] \in 1 .. n
      BY <2>2, <2>3, <3>2, <3>3
    <3>5. \A x, y \in 1 .. l + 1 : x < y => values'[b][x] < values'[b][y]
      <4> SUFFICES ASSUME NEW x \in 1 .. l + 1, NEW y \in 1 .. l + 1, x < y
                   PROVE  values'[b][x] < values'[b][y]
        OBVIOUS
      <4>1. x \in 1 .. l /\ values'[b][x] = values[b][x] /\ values[b][x] \in 1 .. pos
        BY <2>2, <3>2, <3>3
      <4>2. CASE y = l + 1
        BY <4>1, <4>2, <2>3, <3>2
      <4>3. CASE y \in 1 .. l
        BY <4>1, <4>3, <2>2, <3>2
      <4> QED BY <4>2, <4>3, <3>3
    <3>6. ASSUME NEW j \in 1 .. n
          PROVE  (\E x \in 1 .. l + 1 : values'[b][x] = j)
                   <=> j \notin P /\ \E i \in P : ArgumentAt(i) = b /\ j \in Stretch(i)
      <4>1. CASE j = n
        BY <4>1, <1>3, <1>5, <2>4, <3>2, <3>3
      <4>2. CASE j \in 1 .. pos
        BY <4>2, <2>2, <2>3, <3>2, <3>3
      <4> QED BY <4>1, <4>2, <2>3
    <3> QED BY <2>1, <3>2, <3>4, <3>5, <3>6
  <2>5. CASE b # current
    <3>1. values'[b] = values[b]
      BY <1>1, <2>5 DEF TypeOK
    <3>2. \A i \in P : ArgumentAt(i) = b => n \notin Stretch(i)
      BY <1>3, <2>5 DEF Covers
    <3> QED BY <2>1, <2>2, <2>3, <3>1, <3>2
  <2> QED BY <2>4, <2>5
<1>9. Forced(P)'
  <2> SUFFICES ASSUME NEW Q \in Positions, Sentence(Q)
               PROVE  Q \cap (1 .. n) = P
    BY <1>1, <1>4 DEF Forced
  <2>1. Q \cap (1 .. pos) = P
    BY DEF Forced
  <2>2. n \notin Q
    <3> SUFFICES ASSUME n \in Q PROVE FALSE
      OBVIOUS
    <3>1. c \in Q /\ c # n
      BY <1>2, <1>3, <2>1
    <3>2. ArgumentAt(n) # Null
      BY DEF Sentence
    <3>3. nargs[ArgumentAt(n)] \in Nat
      BY <1>2, <3>2, OptionTypes
    <3>4. n \in Stretch(n)
      BY <1>2, <3>3 DEF Stretch
    <3> QED BY <1>3, <3>1, <3>4 DEF Sentence
  <2>3. 1 .. n = (1 .. pos) \cup {n}
    BY <1>2
  <2> QED BY <2>1, <2>2, <2>3
<1> QED BY <1>7, <1>8, <1>9

\* How a reading ends: with an error only when there is no whole reading.
LEMMA ReadingEnds ==
  ASSUME TypeOK, NEW P \in Positions, Reading(P), pc = "parsing",
         UnknownOption \/ RunOut
  PROVE  \A Q \in Positions : ~Sentence(Q)
<1> SUFFICES ASSUME NEW Q \in Positions, Sentence(Q) PROVE FALSE
  OBVIOUS
<1> USE DEF Reading
<1>1. CASE UnknownOption
  <2>1. left = 0 /\ pos < Len(words) /\ ArgumentAt(pos + 1) = Null
    BY <1>1 DEF UnknownOption, ArgumentAt
  <2>2. pos + 1 \in Q
    BY <2>1, NextIsOption
  <2> QED BY <2>1, <2>2 DEF Sentence
<1>2. CASE RunOut
  <2>1. left > 0 /\ pos = Len(words) /\ left \in Nat /\ pos \in Nat
    BY <1>2 DEF RunOut, AllRead, TypeOK
  <2>2. PICK i \in P : /\ ArgumentAt(i) = current /\ i <= pos /\ i \in 1 .. Len(words)
                       /\ nargs[current] \in Nat
                       /\ i + nargs[current] = pos + left
                       /\ pos + 1 \in Stretch(i)
    BY <2>1, NextIsValue
  <2>3. i \in Q
    BY <2>2 DEF Forced
  <2>4. pos + 1 \in 1 .. Len(words)
    BY <2>2, <2>3 DEF Sentence
  <2> QED BY <2>1, <2>4
<1> QED BY <1>1, <1>2

\* The reading, and how parse_args ends.
LEMMA ReadingInvariant == Spec => []IInv
<1>1. Init => IInv
  BY DEF Init, IInv, NothingRead, HelpBound, Outcomes
<1>2. TypeOK /\ IInv /\ NothingRead' /\ [Next]_vars => IInv'
  <2> SUFFICES ASSUME TypeOK, IInv, NothingRead', [Next]_vars PROVE IInv'
    OBVIOUS
  <2> USE DEF IInv
  <2>1. ASSUME NEW names \in SUBSET Words, NEW n \in 0 .. MaxNargs,
               AddArgument(names, n)
        PROVE IInv'
    BY <2>1 DEF AddArgument, HelpBound, Outcomes, TypeOK
  <2>2. ASSUME NEW len \in 0 .. MaxWords, NEW line \in [1 .. len -> Words],
               ParseArgs(line)
        PROVE IInv'
    <3>1. \E P \in Positions' : Reading(P)'
      BY <2>2, ReadingBegins
    <3>2. HelpBound'
      <4>1. CASE addHelp
        <5>1. arguments' = Bind(HelpNames)
          BY <2>2, <4>1 DEF ParseArgs
        <5>2. arguments'["-h"] = made + 1 /\ arguments'["--help"] = made + 1
          BY <5>1, WordsAssumption DEF Bind, HelpNames
        <5> QED BY <5>2 DEF HelpBound, TypeOK, Null
      <4>2. CASE ~addHelp
        BY <2>2, <4>2 DEF ParseArgs, HelpBound
      <4> QED BY <4>1, <4>2
    <3>3. Outcomes'
      BY <2>2 DEF ParseArgs, Outcomes, TypeOK
    <3> QED BY <3>1, <3>2, <3>3
  <2>3. ASSUME ReadOption PROVE IInv'
    <3>1. PICK P \in Positions : Reading(P)
      BY <2>3 DEF ReadOption
    <3>2. \E R : R = P \cup {pos + 1}
      OBVIOUS
    <3>3. \E R \in Positions' : Reading(R)'
      BY <2>3, <3>1, <3>2, ReadingTakesOption
    <3>4. HelpBound' /\ Outcomes'
      BY <2>3 DEF ReadOption, HelpBound, Outcomes, optionVars, TypeOK
    <3> QED BY <3>3, <3>4
  <2>4. ASSUME UnknownOption \/ RunOut PROVE IInv'
    <3>1. pc = "parsing" /\ result' = "error" /\ UNCHANGED <<readVars, optionVars, words>>
      BY <2>4 DEF UnknownOption, RunOut, Finish
    <3>2. PICK P \in Positions : Reading(P)
      BY <3>1
    <3>3. \A Q \in Positions : ~Sentence(Q)
      BY <2>4, <3>1, <3>2, ReadingEnds
    <3>4. Positions' = Positions /\ (\A Q : Sentence(Q)' <=> Sentence(Q))
      BY <3>1, SameSentences DEF optionVars, LineSame
    <3>5. Reading(P)'
      BY <3>1, <3>2, ReadingStays DEF optionVars, LineSame
    <3>6. Outcomes'
      BY <3>1, <3>3, <3>4 DEF Outcomes
    <3>7. HelpBound'
      BY <2>4, <3>1 DEF HelpBound, optionVars
    <3> QED BY <3>4, <3>2, <3>5, <3>6, <3>7
  <2>5. ASSUME ReadValue PROVE IInv'
    <3>1. PICK P \in Positions : Reading(P)
      BY <2>5 DEF ReadValue
    <3>2. Reading(P)'
      BY <2>5, <3>1, ReadingTakesValue
    <3>3. HelpBound' /\ Outcomes' /\ Positions' = Positions
      BY <2>5 DEF ReadValue, HelpBound, Outcomes, optionVars, TypeOK, Positions
    <3> QED BY <3>1, <3>2, <3>3
  <2>6. ASSUME EndOfWords PROVE IInv'
    <3>1. pc = "parsing" /\ AllRead /\ UNCHANGED <<readVars, optionVars, words>>
      BY <2>6 DEF EndOfWords
    <3>2. PICK P \in Positions : Reading(P)
      BY <3>1
    <3>3. Positions' = Positions
      BY <3>1 DEF Positions
    <3>4. Reading(P)'
      BY <3>1, <3>2, ReadingStays DEF optionVars, LineSame
    <3>5. Outcomes'
      BY <2>6, <3>1 DEF EndOfWords, Finish, Outcomes, AllRead, IsSet, readVars, optionVars
    <3>6. HelpBound'
      BY <2>6, <3>1 DEF HelpBound, optionVars
    <3> QED BY <3>2, <3>3, <3>4, <3>5, <3>6
  <2>7. CASE UNCHANGED vars
    <3>1. LineSame /\ UNCHANGED readVars
      BY <2>7 DEF vars, optionVars, LineSame
    <3>2. Positions' = Positions /\ (\A Q : Sentence(Q)' <=> Sentence(Q))
      BY <3>1, SameSentences
    <3>3. pc # "building" => (\E P \in Positions : Reading(P))'
      BY <3>1, <3>2, ReadingStays
    <3>4. HelpBound'
      BY <2>7 DEF vars, optionVars, HelpBound
    <3>5. Outcomes'
      BY <2>7, <3>2 DEF vars, optionVars, readVars, Outcomes, AllRead, IsSet
    <3>6. pc' = pc
      BY <2>7 DEF vars
    <3> QED BY <3>3, <3>4, <3>5, <3>6
  <2> QED BY <2>1, <2>2, <2>3, <2>4, <2>5, <2>6, <2>7 DEF Next, Done
<1> QED BY <1>1, <1>2, TypeCorrect, NothingReadYet, PTL DEF Spec

-----------------------------------------------------------------------------

\* parse_args reports an error exactly when the line is no sequence of options
\* with their values.
THEOREM AcceptsExactly == Spec => []AcceptsSentences
<1>1. TypeOK /\ IInv => AcceptsSentences
  <2> SUFFICES ASSUME TypeOK, IInv, pc = "done", result # "error"
               PROVE  \E P \in Positions : Sentence(P)
    BY DEF AcceptsSentences, IInv, Outcomes
  <2>1. AllRead
    BY DEF TypeOK, IInv, Outcomes
  <2>2. PICK P \in Positions : Reading(P)
    BY DEF IInv
  <2>3. ASSUME NEW i \in P
        PROVE  ArgumentAt(i) # Null /\ Stretch(i) \subseteq 1 .. Len(words)
    <3>1. ArgumentAt(i) # Null /\ i + nargs[ArgumentAt(i)] <= Len(words) /\ i \in 1 .. Len(words)
      BY <2>1, <2>2 DEF AllRead, Reading, Covers, Positions, TypeOK
    <3>2. nargs[ArgumentAt(i)] \in Nat
      BY <3>1, OptionTypes
    <3> QED BY <3>1, <3>2 DEF Stretch, TypeOK
  <2>4. Sentence(P)
    BY <2>1, <2>2, <2>3 DEF AllRead, Reading, Covers, Sentence
  <2> QED BY <2>4
<1> QED BY <1>1, TypeCorrect, ReadingInvariant, PTL

\* After a parse without errors the Arguments hold what the line says.
THEOREM ReadsValues == Spec => []ValuesInOrder
<1>1. TypeOK /\ IInv => ValuesInOrder
  <2> SUFFICES ASSUME TypeOK, IInv, pc = "done", result # "error",
                      NEW P \in Positions, Sentence(P), NEW a \in 1 .. made
               PROVE  /\ isSet[a] <=> \E i \in P : ArgumentAt(i) = a
                      /\ {values[a][x] : x \in DOMAIN values[a]} = ValuesOf(a, P)
                      /\ \A x, y \in DOMAIN values[a] : x < y => values[a][x] < values[a][y]
    BY DEF ValuesInOrder
  <2>1. AllRead /\ pos = Len(words)
    BY DEF TypeOK, IInv, Outcomes, AllRead
  <2>2. PICK R \in Positions : Reading(R)
    BY DEF IInv
  <2>3. R = P
    BY <2>1, <2>2 DEF Reading, Forced, Positions
  <2>4. a \in Arguments /\ DOMAIN values[a] = 1 .. Len(values[a])
    BY BoundsAssumption DEF TypeOK, Arguments
  <2>5. \A j \in 1 .. pos :
          (\E x \in 1 .. Len(values[a]) : values[a][x] = j)
            <=> j \notin P /\ \E i \in P : ArgumentAt(i) = a /\ j \in Stretch(i)
    BY <2>2, <2>3, <2>4 DEF Reading, Holds
  <2>6. \A x \in 1 .. Len(values[a]) : values[a][x] \in 1 .. pos
    BY <2>2, <2>4 DEF Reading, Holds
  <2>7. {values[a][x] : x \in DOMAIN values[a]} = ValuesOf(a, P)
    BY <2>1, <2>4, <2>5, <2>6 DEF ValuesOf
  <2> QED BY <2>2, <2>3, <2>4, <2>7 DEF Reading, Holds
<1> QED BY <1>1, TypeCorrect, ReadingInvariant, PTL

\* When parse_args returns true the help option was not given.
THEOREM HelpIsNotAsked == Spec => []NoHelpAsked
<1>1. TypeOK /\ IInv /\ ValuesInOrder => NoHelpAsked
  <2> SUFFICES ASSUME TypeOK, IInv, ValuesInOrder, result = "ok", addHelp,
                      NEW P \in Positions, Sentence(P),
                      NEW i \in P, words[i] \in HelpNames
               PROVE  FALSE
    BY DEF NoHelpAsked
  <2>1. pc = "done"
    BY DEF TypeOK
  <2>2. ArgumentAt(i) = arguments["-h"] /\ arguments["-h"] # Null
    BY <2>1 DEF IInv, HelpBound, HelpNames, ArgumentAt
  <2>3. "-h" \in Words
    BY WordsAssumption DEF HelpNames
  <2>4. arguments["-h"] \in 1 .. made
    BY <2>2, <2>3 DEF TypeOK, Null
  <2>5. isSet[arguments["-h"]]
    BY <2>1, <2>2, <2>4 DEF ValuesInOrder
  <2> QED BY <2>2, <2>5 DEF IInv, Outcomes, IsSet
<1> QED BY <1>1, TypeCorrect, ReadingInvariant, ReadsValues, PTL

\* Who uses the parser as the header shows finds a value for each of the nargs of an
\* option that is set, or has given that option too few words.
THEOREM SetOptionsAreRead == Spec => []SetOptionsHaveValues
<1>1. TypeOK /\ SetArgumentsHaveValues /\ ShortAtEnd /\ IInv => SetOptionsHaveValues
  <2> SUFFICES ASSUME TypeOK, SetArgumentsHaveValues, ShortAtEnd, IInv, pc = "done",
                      NEW name \in Words, IsSet(name),
                      ~ (result = "error" /\ CutOff(arguments[name])),
                      NEW k \in 0 .. nargs[arguments[name]] - 1
               PROVE  GetValue(name, k) \in 1 .. Len(words)
    BY DEF SetOptionsHaveValues
  <2> DEFINE a == arguments[name]
  <2>1. a \in Arguments /\ a # Null /\ isSet[a]
    <3>1. arguments[name] \in 0 .. made /\ made \in 0 .. MaxArguments + 1
      BY DEF TypeOK
    <3> QED BY <3>1, BoundsAssumption DEF IsSet, Arguments, Null
  <2>2. nargs[a] \in Nat /\ Len(values[a]) \in Nat /\ pos \in Nat /\ left \in Nat
    BY <2>1 DEF TypeOK
  <2>3. PICK P \in Positions : Reading(P)
    BY DEF IInv
  <2>4. ~ (a = current /\ left > 0)
    <3> SUFFICES ASSUME a = current, left > 0 PROVE FALSE
      OBVIOUS
    <3>1. PICK i \in P : ArgumentAt(i) = a /\ i + nargs[a] = pos + left
      BY <2>3 DEF Reading, Covers
    <3>2. i \in 1 .. pos
      BY <2>3 DEF Reading, Covers
    <3>3. result = "error" /\ pos = Len(words)
      BY DEF ShortAtEnd
    <3>4. Len(words) \in i .. i + nargs[a] - 1
      BY <2>2, <3>1, <3>2, <3>3
    <3> QED BY <3>1, <3>2, <3>3, <3>4 DEF CutOff
  <2>5. Len(values[a]) >= nargs[a]
    BY <2>1, <2>2, <2>4 DEF SetArgumentsHaveValues
  <2>6. k < Len(values[a]) /\ k + 1 \in 1 .. Len(values[a])
    BY <2>2, <2>5
  <2>7. GetValue(name, k) = values[a][k + 1]
    BY <2>1, <2>6 DEF GetValue
  <2>8. values[a][k + 1] \in 1 .. pos
    BY <2>1, <2>3, <2>6 DEF Reading, Holds
  <2> QED BY <2>7, <2>8 DEF TypeOK
<1> QED BY <1>1, TypeCorrect, ValuesComplete, ReadingInvariant, PTL

====
