--------------------------- MODULE PlayerArgsProofs ---------------------------
(***************************************************************************)
(* Proofs that the player plays what its command line says, for a command  *)
(* line of any length over any strings.                                    *)
(***************************************************************************)
EXTENDS PlayerArgs, SequenceTheorems, TLAPS

Options == FileOptions \union WidthOptions \union HeightOptions

\* No option is of two kinds.
LEMMA OptionsDiffer ==
  /\ FileOptions \intersect WidthOptions = {} /\ FileOptions \intersect HeightOptions = {}
  /\ WidthOptions \intersect HeightOptions = {} /\ "--help" \notin Options
BY DEF Options, FileOptions, WidthOptions, HeightOptions

\* A function that is a sequence.
LEMMA SeqIs ==
  ASSUME NEW S, NEW n \in Nat, NEW s \in [1..n -> S]
  PROVE  s \in Seq(S) /\ Len(s) = n
<1>1. s \in Seq(S) BY SMT
<1>2. DOMAIN s = 1..n /\ DOMAIN s = 1..Len(s) /\ Len(s) \in Nat BY <1>1
<1> QED BY <1>1, <1>2

(***************************************************************************)
(* From pair to pair.                                                      *)
(***************************************************************************)
\* The pairs before the next one are those before this one, and this one.
LEMMA NextPair ==
  ASSUME TypeOK, AtArgument, HasValue(i), argv' = argv, i' = i + 2
  PROVE  /\ i \in Pairs /\ i \in Nat /\ Pairs' = Pairs
         /\ \A k \in Pairs : k \in Nat /\ (k < i' <=> (k < i \/ k = i))
         /\ i' \in Pairs' \/ i' = Len(argv') + 1
<1>1. argv \in Seq(Arguments) /\ Len(argv) \in Nat /\ DOMAIN argv = 1..Len(argv) BY DEF TypeOK
<1>2. i # Len(argv) + 1 BY <1>1 DEF TypeOK, AtArgument
<1>3. i \in Pairs BY <1>2 DEF TypeOK
<1>4. i \in 1..Len(argv) /\ i % 2 = 1 BY <1>1, <1>3 DEF Pairs
<1>5. i + 1 <= Len(argv) BY DEF HasValue
<1>6. Pairs' = Pairs BY DEF Pairs
<1>7. ASSUME NEW k \in Pairs PROVE k \in Nat /\ (k < i' <=> (k < i \/ k = i))
  <2>0. k \in 1..Len(argv) /\ k % 2 = 1 BY <1>1, <1>7 DEF Pairs
  <2>1. k \in Nat /\ k % 2 = 1 BY <1>1, <2>0
  <2>2. k # i + 1 BY <1>4, <2>1
  <2> QED BY <1>4, <2>1, <2>2
<1>8. i' \in Pairs' \/ i' = Len(argv') + 1
  <2>1. CASE i + 1 = Len(argv) BY <1>1, <1>4, <2>1
  <2>2. CASE i + 2 <= Len(argv)
    <3>1. i + 2 \in 1..Len(argv) BY <1>1, <1>4, <2>2
    <3>2. (i + 2) % 2 = 1 BY <1>4
    <3> QED BY <1>1, <1>6, <3>1, <3>2 DEF Pairs
  <2>3. i + 1 = Len(argv) \/ i + 2 <= Len(argv)
    <3>1. PICK n : n = Len(argv) OBVIOUS
    <3>2. n \in Nat /\ i \in Nat /\ i + 1 <= n BY <1>1, <1>4, <1>5, <3>1
    <3> QED BY <3>1, <3>2
  <2> QED BY <2>1, <2>2, <2>3
<1> QED BY <1>3, <1>4, <1>6, <1>7, <1>8

\* The pair at i is now the last one with its options; for the others nothing changes.
LEMMA LastIsThis ==
  ASSUME TypeOK, AtArgument, HasValue(i), argv' = argv, i' = i + 2,
         NEW options
  PROVE  /\ \A k : k = i /\ argv[i] \in options => LastBefore(k, options)'
         /\ argv[i] \notin options =>
              /\ NoneBefore(options) => NoneBefore(options)'
              /\ \A k \in Pairs : LastBefore(k, options) => LastBefore(k, options)'
<1>1. /\ i \in Pairs /\ i \in Nat /\ Pairs' = Pairs
      /\ \A k \in Pairs : k \in Nat /\ (k < i' <=> (k < i \/ k = i))
  BY NextPair
<1>2. ASSUME NEW k, k = i, argv[i] \in options PROVE LastBefore(k, options)'
  <2>1. \A l \in Pairs : ~(i < l /\ l < i') BY <1>1
  <2>2. i < i' BY <1>1
  <2>3. /\ k \in Pairs' /\ k < i' /\ argv'[k] \in options
        /\ \A l \in Pairs' : k < l /\ l < i' => argv'[l] \notin options
    BY <1>1, <1>2, <2>1, <2>2
  <2> QED BY <2>3 DEF LastBefore
<1> QED BY <1>1, <1>2 DEF LastBefore, NoneBefore

\* While it parses, what is to be shown at the end is still to be shown.
LEMMA Parsing ==
  ASSUME ArgumentsInv, AtArgument
  PROVE  TypeOK /\ ParsedSoFar /\ i \in Pairs
<1>1. TypeOK /\ outcome = "parsing" BY DEF ArgumentsInv, AtArgument
<1>2. argv \in Seq(Arguments) /\ Len(argv) \in Nat BY <1>1 DEF TypeOK
<1>3. i # Len(argv) + 1 BY <1>2 DEF AtArgument
<1> QED BY <1>1, <1>3 DEF ArgumentsInv, TypeOK

(***************************************************************************)
(* The loop goes on.                                                       *)
(***************************************************************************)
\* One setting: the pair at i sets it, or leaves it as it was.
SetBy(options, setting, default) ==
  \/ NoneBefore(options) /\ setting = default
  \/ \E k \in Pairs : LastBefore(k, options) /\ setting = argv[k + 1]
SizeSetBy(options, setting, default) ==
  \/ NoneBefore(options) /\ setting = default
  \/ \E k \in Pairs : LastBefore(k, options) /\ setting = stoi(argv[k + 1])

\* What is set stays so while a pair with other options is read.
LEMMA SettingStays ==
  ASSUME TypeOK, AtArgument, HasValue(i), argv' = argv, i' = i + 2,
         NEW options, argv[i] \notin options, NEW setting, NEW default
  PROVE  /\ SetBy(options, setting, default) =>
              \/ NoneBefore(options)' /\ setting = default
              \/ \E k \in Pairs' : LastBefore(k, options)' /\ setting = argv'[k + 1]
         /\ SizeSetBy(options, setting, default) =>
              \/ NoneBefore(options)' /\ setting = default
              \/ \E k \in Pairs' : LastBefore(k, options)' /\ setting = stoi(argv'[k + 1])
<1>1. Pairs' = Pairs BY NextPair
<1>2. /\ NoneBefore(options) => NoneBefore(options)'
      /\ \A k \in Pairs : LastBefore(k, options) => LastBefore(k, options)'
  BY LastIsThis
<1>3. CASE NoneBefore(options) BY <1>1, <1>2, <1>3 DEF SetBy, SizeSetBy
<1>4. ASSUME NEW k \in Pairs, LastBefore(k, options)
      PROVE  k \in Pairs' /\ LastBefore(k, options)' /\ argv'[k + 1] = argv[k + 1]
  BY <1>1, <1>2, <1>4
<1> QED BY <1>2, <1>4 DEF SetBy, SizeSetBy

\* A good pair, and what it sets.
LEMMA GoodPair ==
  ASSUME TypeOK, AtArgument, HasValue(i), argv' = argv, i' = i + 2, Good(i),
         \A k \in Pairs : k < i => Good(k)
  PROVE  \A k \in Pairs' : k < i' => Good(k)'
<1>1. /\ Pairs' = Pairs
      /\ \A k \in Pairs : k < i' => (k < i \/ k = i)
  BY NextPair
<1>2. \A k \in Pairs : Good(k) => Good(k)' BY DEF Good
<1> QED BY <1>1, <1>2

\* The value of the option at i is on the command line.
LEMMA ValueInArgv ==
  ASSUME TypeOK, AtArgument, HasValue(i)
  PROVE  i + 1 \in DOMAIN argv
<1>1. argv \in Seq(Arguments) /\ Len(argv) \in Nat /\ DOMAIN argv = 1..Len(argv) BY DEF TypeOK
<1>2. i # Len(argv) + 1 BY <1>1 DEF AtArgument
<1>3. i \in 1..Len(argv) BY <1>1, <1>2 DEF TypeOK, Pairs
<1> QED BY <1>1, <1>3 DEF HasValue

\* A pair that names a file sets the file and nothing else.
LEMMA FileInv ==
  ASSUME ArgumentsInv, File
  PROVE  ArgumentsInv'
<1>1. /\ AtArgument /\ argv[i] \in FileOptions /\ HasValue(i) /\ argv' = argv /\ i' = i + 2
      /\ file_path' = argv[i + 1] /\ window_width' = window_width /\ window_height' = window_height
      /\ outcome' = "parsing"
  BY DEF File, AtArgument
<1>2. TypeOK /\ ParsedSoFar BY <1>1, Parsing
<1>3. Good(i) BY <1>1, <1>2, ValueInArgv DEF Good
<1>4. \A k \in Pairs' : k < i' => Good(k)' BY <1>1, <1>2, <1>3, GoodPair DEF ParsedSoFar
<1>5. argv[i] \notin WidthOptions /\ argv[i] \notin HeightOptions BY <1>1, OptionsDiffer
<1>6. \E k \in Pairs' : LastBefore(k, FileOptions)' /\ file_path' = argv'[k + 1]
  <2>1. PICK k : k = i OBVIOUS
  <2>2. LastBefore(k, FileOptions)' BY <1>1, <1>2, <2>1, LastIsThis
  <2>3. k \in Pairs' BY <1>1, <1>2, <2>1, NextPair
  <2> QED BY <1>1, <2>1, <2>2, <2>3
<1>7. SizeSetBy(WidthOptions, window_width, 1280) /\ SizeSetBy(HeightOptions, window_height, 720)
  BY <1>2 DEF ParsedSoFar, SizeSetBy
<1>8. /\ \/ NoneBefore(WidthOptions)' /\ window_width' = 1280
         \/ \E k \in Pairs' : LastBefore(k, WidthOptions)' /\ window_width' = stoi(argv'[k + 1])
      /\ \/ NoneBefore(HeightOptions)' /\ window_height' = 720
         \/ \E k \in Pairs' : LastBefore(k, HeightOptions)' /\ window_height' = stoi(argv'[k + 1])
  BY <1>1, <1>2, <1>5, <1>7, SettingStays
<1>9. ParsedSoFar' BY <1>4, <1>6, <1>8 DEF ParsedSoFar
<1>10. TypeOK'
  <2>1. i' \in Pairs' \/ i' = Len(argv') + 1 BY <1>1, <1>2, NextPair
  <2> QED BY <1>1, <1>2, <2>1 DEF TypeOK
<1>11. PlaysWhatItSays' BY <1>1 DEF PlaysWhatItSays
<1> QED BY <1>9, <1>10, <1>11 DEF ArgumentsInv

\* A pair that gives a size sets that one and nothing else.
LEMMA SizeInv ==
  ASSUME ArgumentsInv, Size
  PROVE  ArgumentsInv'
<1>1. /\ AtArgument /\ HasValue(i) /\ argv' = argv /\ i' = i + 2
      /\ file_path' = file_path /\ outcome' = "parsing"
      /\ argv[i] \in WidthOptions \union HeightOptions /\ Converts(argv[i + 1])
  BY DEF Size, AtArgument
<1>2. TypeOK /\ ParsedSoFar BY <1>1, Parsing
<1>3. Good(i) BY <1>1, <1>2, ValueInArgv DEF Good, Converts
<1>4. \A k \in Pairs' : k < i' => Good(k)' BY <1>1, <1>2, <1>3, GoodPair DEF ParsedSoFar
<1>5. argv[i] \notin FileOptions BY <1>1, OptionsDiffer
<1>6. \/ NoneBefore(FileOptions)' /\ file_path' = ""
      \/ \E k \in Pairs' : LastBefore(k, FileOptions)' /\ file_path' = argv'[k + 1]
  <2>1. SetBy(FileOptions, file_path, "") BY <1>2 DEF ParsedSoFar, SetBy
  <2>2. PICK path, none : path = file_path /\ none = "" OBVIOUS
  <2>3. SetBy(FileOptions, path, none) BY <2>1, <2>2
  <2>4. \/ NoneBefore(FileOptions)' /\ path = none
        \/ \E k \in Pairs' : LastBefore(k, FileOptions)' /\ path = argv'[k + 1]
    BY <1>1, <1>2, <1>5, <2>3, SettingStays
  <2> QED BY <1>1, <2>2, <2>4
<1>7. SizeSetBy(WidthOptions, window_width, 1280) /\ SizeSetBy(HeightOptions, window_height, 720)
  BY <1>2 DEF ParsedSoFar, SizeSetBy
<1>8. PICK k : k = i OBVIOUS
<1>9. k \in Pairs' BY <1>1, <1>2, <1>8, NextPair
<1>10. /\ \/ NoneBefore(WidthOptions)' /\ window_width' = 1280
          \/ \E l \in Pairs' : LastBefore(l, WidthOptions)' /\ window_width' = stoi(argv'[l + 1])
       /\ \/ NoneBefore(HeightOptions)' /\ window_height' = 720
          \/ \E l \in Pairs' : LastBefore(l, HeightOptions)' /\ window_height' = stoi(argv'[l + 1])
  <2>1. CASE argv[i] \in WidthOptions
    <3>1. argv[i] \notin HeightOptions BY <2>1, OptionsDiffer
    <3>2. window_width' = stoi(argv[i + 1]) /\ window_height' = window_height
      BY <3>1 DEF Size
    <3>3. LastBefore(k, WidthOptions)' BY <1>1, <1>2, <1>8, <2>1, LastIsThis
    <3>4. \E l \in Pairs' : LastBefore(l, WidthOptions)' /\ window_width' = stoi(argv'[l + 1])
      BY <1>1, <1>8, <1>9, <3>2, <3>3
    <3>5. \/ NoneBefore(HeightOptions)' /\ window_height' = 720
          \/ \E l \in Pairs' : LastBefore(l, HeightOptions)' /\ window_height' = stoi(argv'[l + 1])
      BY <1>1, <1>2, <1>7, <3>1, <3>2, SettingStays
    <3> QED BY <3>4, <3>5
  <2>2. CASE argv[i] \in HeightOptions
    <3>1. argv[i] \notin WidthOptions BY <2>2, OptionsDiffer
    <3>2. window_height' = stoi(argv[i + 1]) /\ window_width' = window_width
      BY <3>1 DEF Size
    <3>3. LastBefore(k, HeightOptions)' BY <1>1, <1>2, <1>8, <2>2, LastIsThis
    <3>4. \E l \in Pairs' : LastBefore(l, HeightOptions)' /\ window_height' = stoi(argv'[l + 1])
      BY <1>1, <1>8, <1>9, <3>2, <3>3
    <3>5. \/ NoneBefore(WidthOptions)' /\ window_width' = 1280
          \/ \E l \in Pairs' : LastBefore(l, WidthOptions)' /\ window_width' = stoi(argv'[l + 1])
      BY <1>1, <1>2, <1>7, <3>1, <3>2, SettingStays
    <3> QED BY <3>4, <3>5
  <2> QED BY <1>1, <2>1, <2>2
<1>11. ParsedSoFar' BY <1>4, <1>6, <1>10 DEF ParsedSoFar
<1>12. TypeOK'
  <2>1. i' \in Pairs' \/ i' = Len(argv') + 1 BY <1>1, <1>2, NextPair
  <2> QED BY <1>1, <1>2, <2>1 DEF TypeOK
<1>13. PlaysWhatItSays' BY <1>1 DEF PlaysWhatItSays
<1> QED BY <1>11, <1>12, <1>13 DEF ArgumentsInv

(***************************************************************************)
(* The loop ends.                                                          *)
(***************************************************************************)
\* A pair that is not good is the end, and says that nothing is to be played.
LEMMA RefusedInv ==
  ASSUME ArgumentsInv, Help \/ MissingValue \/ NotInteger \/ Throws \/ Invalid
  PROVE  ArgumentsInv'
<1>1. /\ AtArgument /\ argv' = argv /\ i' = i /\ outcome' \in {"help", "usage", "throws"}
      /\ file_path' = file_path /\ window_width' = window_width /\ window_height' = window_height
  BY DEF Help, MissingValue, NotInteger, Throws, Invalid, Return
<1>2. TypeOK /\ i \in Pairs BY <1>1, Parsing
<1>3. argv \in Seq(Arguments) /\ Len(argv) \in Nat /\ DOMAIN argv = 1..Len(argv) BY <1>2 DEF TypeOK
<1>4. ~Good(i)
  <2>1. CASE Help BY <2>1, OptionsDiffer DEF Help, Good, Options
  <2>2. CASE MissingValue
    <3>1. i + 1 \notin DOMAIN argv BY <1>3, <2>2 DEF MissingValue, HasValue
    <3> QED BY <3>1 DEF Good
  <2>3. CASE NotInteger
    <3>1. argv[i] \notin FileOptions BY <2>3, OptionsDiffer DEF NotInteger
    <3>2. argv[i + 1] \notin {"640", "480"} BY <2>3 DEF NotInteger, is_integer, Digits
    <3> QED BY <3>1, <3>2 DEF Good
  <2>4. CASE Throws
    <3>1. argv[i] \notin FileOptions BY <2>4, OptionsDiffer DEF Throws
    <3> QED BY <2>4, <3>1 DEF Throws, Converts, Good
  <2>5. CASE Invalid BY <2>5 DEF Invalid, Good
  <2> QED BY <2>1, <2>2, <2>3, <2>4, <2>5
<1>5. ~Proper BY <1>2, <1>4 DEF Proper
<1>6. ~Proper' BY <1>1, <1>5 DEF Proper, Pairs, Good, LastOf
<1>7. PlaysWhatItSays'
  <2>1. outcome' # "parsing" /\ outcome' # "play" BY <1>1
  <2> QED BY <1>6, <2>1, Zenon DEF PlaysWhatItSays
<1>8. TypeOK' BY <1>1, <1>2 DEF TypeOK, Pairs
<1> QED BY <1>1, <1>7, <1>8 DEF ArgumentsInv

\* At the end of the command line the last of all pairs is the last before it.
LEMMA AllBefore ==
  ASSUME TypeOK, i > Len(argv)
  PROVE  /\ \A k \in Pairs : k < i
         /\ \A options, k : LastBefore(k, options) <=> k \in LastOf(options)
         /\ \A options : NoneBefore(options) => LastOf(options) = {}
<1>1. argv \in Seq(Arguments) /\ Len(argv) \in Nat /\ DOMAIN argv = 1..Len(argv) BY DEF TypeOK
<1>2. i \in Nat BY <1>1 DEF TypeOK, Pairs
<1>3. \A k \in Pairs : k \in Nat /\ k < i BY <1>1, <1>2 DEF Pairs
<1>4. \A options, k : LastBefore(k, options) <=> k \in LastOf(options)
  BY <1>3 DEF LastBefore, LastOf
<1>5. \A options : NoneBefore(options) => LastOf(options) = {}
  BY <1>3 DEF NoneBefore, LastOf
<1> QED BY <1>3, <1>4, <1>5

\* There is one last pair.
LEMMA LastOfIsOne ==
  ASSUME TypeOK, NEW options, NEW k \in LastOf(options), NEW l \in LastOf(options)
  PROVE  k = l
<1>1. argv \in Seq(Arguments) /\ DOMAIN argv = 1..Len(argv) BY DEF TypeOK
<1>2. k \in Nat /\ l \in Nat BY <1>1 DEF LastOf, Pairs
<1>3. ~(k < l) /\ ~(l < k) BY DEF LastOf
<1> QED BY <1>2, <1>3

\* One setting, by the last of all pairs that sets it.
SetAtEnd(options, setting, default) ==
  \/ LastOf(options) = {} /\ setting = default
  \/ LastOf(options) # {} /\ \A k \in LastOf(options) : setting = argv[k + 1]
SizeSetAtEnd(options, setting, default) ==
  \/ LastOf(options) = {} /\ setting = default
  \/ LastOf(options) # {} /\ \A k \in LastOf(options) : setting = stoi(argv[k + 1])

\* A setting at the end is that of the last pair with one of its options.
LEMMA SetAtTheEnd ==
  ASSUME TypeOK, i > Len(argv), NEW options, NEW setting, NEW default
  PROVE  /\ SetBy(options, setting, default) => SetAtEnd(options, setting, default)
         /\ SizeSetBy(options, setting, default) => SizeSetAtEnd(options, setting, default)
<1>1. /\ \A k : LastBefore(k, options) <=> k \in LastOf(options)
      /\ NoneBefore(options) => LastOf(options) = {}
  BY AllBefore
<1>2. \A k, l \in LastOf(options) : k = l BY LastOfIsOne
<1>3. CASE NoneBefore(options) /\ setting = default BY <1>1, <1>3 DEF SetAtEnd, SizeSetAtEnd
<1>4. ASSUME NEW k \in LastOf(options), setting = argv[k + 1]
      PROVE  LastOf(options) # {} /\ \A l \in LastOf(options) : setting = argv[l + 1]
  <2>1. \A l \in LastOf(options) : l = k BY <1>2
  <2> QED BY <1>4, <2>1
<1>5. ASSUME NEW k \in LastOf(options), setting = stoi(argv[k + 1])
      PROVE  LastOf(options) # {} /\ \A l \in LastOf(options) : setting = stoi(argv[l + 1])
  <2>1. \A l \in LastOf(options) : l = k BY <1>2
  <2> QED BY <1>5, <2>1
<1>6. ASSUME SetBy(options, setting, default), ~(NoneBefore(options) /\ setting = default)
      PROVE  LastOf(options) # {} /\ \A k \in LastOf(options) : setting = argv[k + 1]
  <2>1. PICK k \in Pairs : LastBefore(k, options) /\ setting = argv[k + 1] BY <1>6 DEF SetBy
  <2>2. k \in LastOf(options) BY <1>1, <2>1
  <2> QED BY <1>4, <2>1, <2>2
<1>7. ASSUME SizeSetBy(options, setting, default), ~(NoneBefore(options) /\ setting = default)
      PROVE  LastOf(options) # {} /\ \A k \in LastOf(options) : setting = stoi(argv[k + 1])
  <2>1. PICK k \in Pairs : LastBefore(k, options) /\ setting = stoi(argv[k + 1]) BY <1>7 DEF SizeSetBy
  <2>2. k \in LastOf(options) BY <1>1, <2>1
  <2> QED BY <1>5, <2>1, <2>2
<1>8. SetBy(options, setting, default) => SetAtEnd(options, setting, default)
  BY <1>3, <1>6 DEF SetAtEnd
<1>9. SizeSetBy(options, setting, default) => SizeSetAtEnd(options, setting, default)
  BY <1>3, <1>7 DEF SizeSetAtEnd
<1> QED BY <1>8, <1>9

\* At the end the player starts exactly when a file was named, and then every
\* setting is that of the last option that sets it.
LEMMA FinishInv ==
  ASSUME ArgumentsInv, Finish
  PROVE  ArgumentsInv'
<1>1. /\ TypeOK /\ ParsedSoFar /\ i > Len(argv) /\ argv' = argv /\ i' = i
      /\ outcome' = (IF file_path = "" THEN "usage" ELSE "play")
      /\ file_path' = file_path /\ window_width' = window_width /\ window_height' = window_height
  BY DEF ArgumentsInv, Finish, Return
<1>2. \A k \in Pairs : k < i BY <1>1, AllBefore
<1>3. \A k \in Pairs : Good(k) BY <1>1, <1>2 DEF ParsedSoFar
<1>4. PICK path, width, height : path = file_path /\ width = window_width /\ height = window_height
  OBVIOUS
<1>5. SetAtEnd(FileOptions, path, "")
  <2>1. SetBy(FileOptions, path, "") BY <1>1, <1>4 DEF ParsedSoFar, SetBy
  <2> QED BY <1>1, <2>1, SetAtTheEnd
<1>6. SizeSetAtEnd(WidthOptions, width, 1280) /\ SizeSetAtEnd(HeightOptions, height, 720)
  <2>1. \A options, setting, default :
          SizeSetBy(options, setting, default) => SizeSetAtEnd(options, setting, default)
    BY <1>1, SetAtTheEnd
  <2>2. SizeSetBy(WidthOptions, window_width, 1280) BY <1>1 DEF ParsedSoFar, SizeSetBy
  <2>3. SizeSetBy(HeightOptions, window_height, 720) BY <1>1 DEF ParsedSoFar, SizeSetBy
  <2>4. SizeSetBy(WidthOptions, width, 1280) BY ONLY <1>4, <2>2
  <2>5. SizeSetBy(HeightOptions, height, 720) BY ONLY <1>4, <2>3
  <2>6. SizeSetAtEnd(WidthOptions, width, 1280) BY ONLY <2>1, <2>4
  <2>7. SizeSetAtEnd(HeightOptions, height, 720) BY ONLY <2>1, <2>5
  <2> QED BY <2>6, <2>7
<1>7. /\ LastOf(FileOptions) # {} \/ path = ""
      /\ \A k \in LastOf(FileOptions) : path = argv[k + 1]
  BY <1>5 DEF SetAtEnd
<1>8. /\ \A k \in LastOf(WidthOptions) : width = stoi(argv[k + 1])
      /\ LastOf(WidthOptions) = {} => width = 1280
  BY <1>6 DEF SizeSetAtEnd
<1>9. /\ \A k \in LastOf(HeightOptions) : height = stoi(argv[k + 1])
      /\ LastOf(HeightOptions) = {} => height = 720
  BY <1>6 DEF SizeSetAtEnd
<1>10. Proper <=> path # "" BY <1>3, <1>7 DEF Proper
<1>11. outcome' = "play" <=> Proper
  <2>1. outcome' = "play" <=> path # "" BY <1>1, <1>4
  <2>2. (outcome' = "play") \in BOOLEAN /\ (path # "") \in BOOLEAN /\ Proper \in BOOLEAN BY DEF Proper
  <2> QED BY <1>10, <2>1, <2>2
<1>12. /\ Proper' <=> Proper
       /\ \A options : LastOf(options)' = LastOf(options)
  BY <1>1 DEF Proper, LastOf, Pairs, Good
<1>13. /\ \A k \in LastOf(FileOptions)' : file_path' = argv'[k + 1]
       /\ \A k \in LastOf(WidthOptions)' : window_width' = stoi(argv'[k + 1])
       /\ \A k \in LastOf(HeightOptions)' : window_height' = stoi(argv'[k + 1])
       /\ LastOf(WidthOptions)' = {} => window_width' = 1280
       /\ LastOf(HeightOptions)' = {} => window_height' = 720
  <2>1. \A options : \A k \in LastOf(options)' : k \in LastOf(options) /\ argv'[k + 1] = argv[k + 1]
    BY <1>1, <1>12
  <2>2. \A options : LastOf(options)' = {} => LastOf(options) = {} BY <1>12
  <2>3. file_path' = path /\ window_width' = width /\ window_height' = height BY <1>1, <1>4
  <2>4. \A k \in LastOf(FileOptions)' : file_path' = argv'[k + 1] BY ONLY <1>7, <2>1, <2>3
  <2>5. \A k \in LastOf(WidthOptions)' : window_width' = stoi(argv'[k + 1]) BY ONLY <1>8, <2>1, <2>3
  <2>6. \A k \in LastOf(HeightOptions)' : window_height' = stoi(argv'[k + 1]) BY ONLY <1>9, <2>1, <2>3
  <2>7. LastOf(WidthOptions)' = {} => window_width' = 1280 BY ONLY <1>8, <2>2, <2>3
  <2>8. LastOf(HeightOptions)' = {} => window_height' = 720 BY ONLY <1>9, <2>2, <2>3
  <2> QED BY <2>4, <2>5, <2>6, <2>7, <2>8
<1>14. PlaysWhatItSays'
  <2>1. outcome' = "play" <=> Proper' BY <1>11, <1>12
  <2> QED BY <1>13, <2>1 DEF PlaysWhatItSays
<1>15. TypeOK' BY <1>1 DEF TypeOK, Pairs
<1>16. outcome' # "parsing" BY <1>1
<1> QED BY <1>14, <1>15, <1>16 DEF ArgumentsInv

(***************************************************************************)
(* The theorems.                                                           *)
(***************************************************************************)
\* The inductive invariant holds for every command line.
THEOREM ArgumentsInvariant == Spec => []ArgumentsInv
<1>1. Init => ArgumentsInv
  <2> SUFFICES ASSUME Init PROVE ArgumentsInv OBVIOUS
  <2>1. PICK n \in 0..MaxArguments : argv \in [1..n -> Arguments] BY DEF Init
  <2>2. n \in Nat BY ArgumentsAssumption
  <2>3. argv \in Seq(Arguments) /\ Len(argv) = n BY <2>1, <2>2, SeqIs
  <2>4. i \in Pairs \/ i = Len(argv) + 1
    <3>0. i = 1 BY DEF Init
    <3>1. CASE n = 0 BY <2>3, <3>0, <3>1
    <3>2. CASE n # 0
      <4>1. 1 \in DOMAIN argv /\ 1 % 2 = 1 BY <2>1, <2>2, <3>2
      <4> QED BY <3>0, <4>1 DEF Pairs
    <3> QED BY <3>1, <3>2
  <2>5. TypeOK BY <2>3, <2>4 DEF Init, TypeOK
  <2>6. \A k \in Pairs : ~(k < i)
    <3>1. i = 1 BY DEF Init
    <3>2. \A k \in Pairs : k \in 1..n BY <2>1 DEF Pairs
    <3>3. \A k \in 1..n : ~(k < 1) BY <2>2
    <3> QED BY <3>1, <3>2, <3>3
  <2>7. ParsedSoFar
    <3>1. \A options : NoneBefore(options) BY <2>6 DEF NoneBefore
    <3>2. \A k \in Pairs : k < i => Good(k) BY <2>6
    <3>3. file_path = "" /\ window_width = 1280 /\ window_height = 720 BY DEF Init
    <3>4. NoneBefore(FileOptions) /\ file_path = "" BY <3>1, <3>3
    <3>5. NoneBefore(WidthOptions) /\ window_width = 1280 BY <3>1, <3>3
    <3>6. NoneBefore(HeightOptions) /\ window_height = 720 BY <3>1, <3>3
    <3> QED BY ONLY <3>2, <3>4, <3>5, <3>6, Zenon DEF ParsedSoFar
  <2>8. PlaysWhatItSays BY DEF Init, PlaysWhatItSays
  <2> QED BY <2>5, <2>7, <2>8 DEF ArgumentsInv
<1>2. ArgumentsInv /\ [Next]_vars => ArgumentsInv'
  <2> SUFFICES ASSUME ArgumentsInv, [Next]_vars PROVE ArgumentsInv' OBVIOUS
  <2>1. CASE File BY <2>1, FileInv
  <2>2. CASE Size BY <2>2, SizeInv
  <2>3. CASE Help \/ MissingValue \/ NotInteger \/ Throws \/ Invalid BY <2>3, RefusedInv
  <2>4. CASE Finish BY <2>4, FinishInv
  <2>5. CASE UNCHANGED vars
    <3> USE <2>5 DEF vars
    <3>1. TypeOK' BY DEF ArgumentsInv, TypeOK, Pairs
    <3>2. Proper' = Proper /\ \A options : LastOf(options)' = LastOf(options)
      BY DEF Proper, LastOf, Pairs, Good
    <3>3. PlaysWhatItSays' BY <3>2 DEF ArgumentsInv, PlaysWhatItSays
    <3>4. /\ Pairs' = Pairs
          /\ \A options : NoneBefore(options)' = NoneBefore(options)
          /\ \A options, k : LastBefore(k, options)' = LastBefore(k, options)
          /\ \A k : Good(k)' = Good(k)
      BY DEF Pairs, NoneBefore, LastBefore, Good
    <3>5. ASSUME ParsedSoFar PROVE ParsedSoFar'
      <4>1. \A k \in Pairs' : k < i' => Good(k)' BY <3>4, <3>5 DEF ParsedSoFar
      <4>2. \/ NoneBefore(FileOptions)' /\ file_path' = ""
            \/ \E k \in Pairs' : LastBefore(k, FileOptions)' /\ file_path' = argv'[k + 1]
        BY <3>4, <3>5 DEF ParsedSoFar
      <4>3. ASSUME NEW options, NEW setting, NEW default, SizeSetBy(options, setting, default)
            PROVE  \/ NoneBefore(options)' /\ setting = default
                   \/ \E k \in Pairs' : LastBefore(k, options)' /\ setting = stoi(argv'[k + 1])
        BY <3>4, <4>3 DEF SizeSetBy
      <4>4. SizeSetBy(WidthOptions, window_width, 1280) /\ SizeSetBy(HeightOptions, window_height, 720)
        BY <3>5 DEF ParsedSoFar, SizeSetBy
      <4>5. PICK width, height : width = window_width /\ height = window_height OBVIOUS
      <4>6. \/ NoneBefore(WidthOptions)' /\ width = 1280
            \/ \E k \in Pairs' : LastBefore(k, WidthOptions)' /\ width = stoi(argv'[k + 1])
        BY <4>3, <4>4, <4>5
      <4>7. \/ NoneBefore(HeightOptions)' /\ height = 720
            \/ \E k \in Pairs' : LastBefore(k, HeightOptions)' /\ height = stoi(argv'[k + 1])
        BY <4>3, <4>4, <4>5
      <4>8. \/ NoneBefore(WidthOptions)' /\ window_width' = 1280
            \/ \E k \in Pairs' : LastBefore(k, WidthOptions)' /\ window_width' = stoi(argv'[k + 1])
        BY <4>5, <4>6
      <4>9. \/ NoneBefore(HeightOptions)' /\ window_height' = 720
            \/ \E k \in Pairs' : LastBefore(k, HeightOptions)' /\ window_height' = stoi(argv'[k + 1])
        BY <4>5, <4>7
      <4> QED BY <4>1, <4>2, <4>8, <4>9 DEF ParsedSoFar
    <3> QED BY <3>1, <3>3, <3>5 DEF ArgumentsInv
  <2> QED BY <2>1, <2>2, <2>3, <2>4, <2>5 DEF Next
<1> QED BY <1>1, <1>2, PTL DEF Spec

\* The player starts exactly on a proper command line, and with what that says.
THEOREM ArgumentsMeanWhatTheySay == Spec => []PlaysWhatItSays
<1>1. ArgumentsInv => PlaysWhatItSays BY DEF ArgumentsInv
<1> QED BY <1>1, ArgumentsInvariant, PTL
===============================================================================
