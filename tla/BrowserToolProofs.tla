--------------------------- MODULE BrowserToolProofs ---------------------------
(***************************************************************************)
(* Proofs about three tools of the browser, SpellChecker, SourceMap and    *)
(* VersionBrowser, and about MCBrowserTools, in which all of them are put  *)
(* side by side.                                                           *)
(*                                                                         *)
(* SpellChecker, for any words, languages, dictionaries and number of      *)
(* messages under way: the types, and that the marks of the editor fit its *)
(* text, its language and its personal dictionary when everything was      *)
(* answered. The argument: whatever makes the marks of the editor old, a   *)
(* change, a dictionary or a personal word, starts the timer in the end,   *)
(* be it by a message that is still to come. When nothing will start it    *)
(* any more the last check sent is of the text as it is, all answers are   *)
(* results, and the last of them is shown last.                            *)
(*                                                                         *)
(* SourceMap, for any data, files and heights: what is kept of the data,   *)
(* and that a click finds its source. The argument: the least and the      *)
(* greatest height of a page exist, as the heights that were read lie      *)
(* between two numbers; the record found is a nearest one; a click on a    *)
(* record is at distance 0 of it; of two clicks the lower one is nearer to *)
(* whatever lies below; and the timer of the last click runs off last.     *)
(*                                                                         *)
(* VersionBrowser, for any files and lines and texts of any length: that   *)
(* the comparison is faithful and a shortest one. The argument: no common  *)
(* subsequence of two prefixes is longer than the table says, by induction *)
(* over the table; the way back drops some numbers of the base and adds    *)
(* some of the other text so that the same lines are left, as many as the  *)
(* table says, which is then the longest; leaving out context loses no     *)
(* change; and a number that is not added is found among the lines left    *)
(* at its place less the additions before it.                              *)
(***************************************************************************)
EXTENDS MCBrowserTools, SessionProofs, ProjectFilesProofs, TextProofs, SequenceTheorems, TLAPS

---------------------------------------------------------------------------
(* SpellChecker.                                                           *)

ToWorker ==
  [type : {"load"}, locale : Locales] \cup [type : {"addWord"}, word : Vocabulary]
    \cup [type : {"check"}, words : SUBSET Vocabulary]
ToMain == [type : {"loaded", "wordAdded"}] \cup [type : {"result"}, words : SUBSET Vocabulary]

SpellTypes == SpellTypeOK /\ toWorker \in Seq(ToWorker) /\ toMain \in Seq(ToMain)

\* Without a worker there are no messages.
Stopped ==
  /\ importing # NoLocale => spellEnabled
  /\ ~Running => toWorker = <<>> /\ toMain = <<>> /\ fetches = <<>> /\ checker = NoLocale /\ ~timer

IsLoad(i) == toWorker[i].type = "load"

\* The dictionary of the language is asked for, fetched, or there.
LanguageComes ==
  \/ /\ fetches = <<>>
     /\ \E i \in DOMAIN toWorker :
          toWorker[i] = Load(spellLocale) /\ \A j \in DOMAIN toWorker : IsLoad(j) => i = j
  \/ fetches = <<spellLocale>> /\ \A i \in DOMAIN toWorker : ~IsLoad(i)
  \/ fetches = <<>> /\ checker = spellLocale /\ \A i \in DOMAIN toWorker : ~IsLoad(i)

\* The timer runs, or a message starts it that comes or will be answered.
TimerComes ==
  \/ timer \/ fetches # <<>>
  \/ \E i \in DOMAIN toWorker : toWorker[i].type # "check"
  \/ \E i \in DOMAIN toMain : toMain[i].type # "result"

\* The last check is of the text, the last result is that of the last check.
LastCheckFits ==
  /\ toWorker # <<>> => toWorker[Len(toWorker)].words = text
  /\ toWorker = <<>> /\ toMain # <<>> => toMain[Len(toMain)].words = Misspelt(text)
  /\ toWorker = <<>> /\ toMain = <<>> => marked = Misspelt(text)

SpellInv ==
  /\ SpellTypes /\ Stopped
  /\ Running /\ ~confused => LanguageComes /\ (TimerComes \/ LastCheckFits)

---------------------------------------------------------------------------
(* Queues.                                                                 *)

USE SpellAssumption

\* A message is put behind the others.
LEMMA Queued ==
  ASSUME NEW S, NEW s \in Seq(S), NEW m \in S
  PROVE  /\ s \o <<m>> \in Seq(S) /\ Append(s, m) = s \o <<m>> /\ s \o <<m>> # <<>>
         /\ Len(s \o <<m>>) = Len(s) + 1 /\ (s \o <<m>>)[Len(s) + 1] = m
         /\ DOMAIN s = 1..Len(s) /\ DOMAIN (s \o <<m>>) = 1..(Len(s) + 1) /\ Len(s) \in Nat
         /\ \A i \in DOMAIN s : (s \o <<m>>)[i] = s[i] /\ s[i] \in S
<1>1. <<m>> \in Seq(S) /\ Len(<<m>>) = 1 /\ <<m>>[1] = m
  OBVIOUS
<1>2. s \o <<m>> \in Seq(S) /\ Len(s \o <<m>>) = Len(s) + 1
  BY <1>1, ConcatProperties
<1>3. QED
  BY <1>1, <1>2

\* The first message is taken.
LEMMA Taken ==
  ASSUME NEW S, NEW s \in Seq(S), s # <<>>
  PROVE  /\ Tail(s) \in Seq(S) /\ Head(s) = s[1] /\ Head(s) \in S
         /\ Len(s) \in Nat \ {0} /\ DOMAIN s = 1..Len(s)
         /\ Len(Tail(s)) = Len(s) - 1 /\ DOMAIN Tail(s) = 1..(Len(s) - 1)
         /\ \A i \in DOMAIN Tail(s) : Tail(s)[i] = s[i + 1]
         /\ (Tail(s) = <<>>) <=> (Len(s) = 1)
<1>1. /\ Tail(s) \in Seq(S) /\ Len(s) \in Nat \ {0} /\ DOMAIN s = 1..Len(s)
      /\ Len(Tail(s)) = Len(s) - 1 /\ DOMAIN Tail(s) = 1..(Len(s) - 1)
      /\ Head(s) = s[1] /\ Head(s) \in S /\ \A i \in DOMAIN Tail(s) : Tail(s)[i] = s[i + 1]
  OBVIOUS
<1>2. (Tail(s) = <<>>) <=> (Len(Tail(s)) = 0)
  BY <1>1, EmptySeq
<1>3. QED
  BY <1>1, <1>2

\* What is left of the fetches when one is over.
LEMMA Without1 ==
  ASSUME NEW S, NEW s \in Seq(S), NEW i \in DOMAIN s
  PROVE  Without(s, i) \in Seq(S) /\ (Len(s) = 1 => Without(s, i) = <<>>)
<1>1. Len(s) \in Nat /\ i \in 1..Len(s)
  OBVIOUS
<1>2. SubSeq(s, 1, i - 1) \in Seq(S) /\ SubSeq(s, i + 1, Len(s)) \in Seq(S)
  BY <1>1
<1>3. Without(s, i) \in Seq(S)
  BY <1>2, ConcatProperties DEF Without
<1>4. ASSUME Len(s) = 1 PROVE Without(s, i) = <<>>
  <2>1. Len(SubSeq(s, 1, i - 1)) = 0 /\ Len(SubSeq(s, i + 1, Len(s))) = 0
    BY <1>1, <1>4
  <2>2. Len(Without(s, i)) = 0
    BY <1>2, <2>1, ConcatProperties DEF Without
  <2>3. QED
    BY <1>3, <2>2, EmptySeq
<1>5. QED
  BY <1>3, <1>4

---------------------------------------------------------------------------
(* Types.                                                                  *)

LEMMA MisspeltType == ASSUME SpellTypes, NEW words \in SUBSET Vocabulary PROVE Misspelt(words) \subseteq Vocabulary
BY DEF Misspelt

LEMMA SpellTypesStay == SpellTypes /\ [SpellNext]_spellVars => SpellTypes'
<1> SUFFICES ASSUME SpellTypes, [SpellNext]_spellVars PROVE SpellTypes'
  OBVIOUS
<1> USE DEF SpellTypes, SpellTypeOK, workerVars, controlVars
<1>0. /\ \A l \in Locales : Load(l) \in ToWorker
      /\ \A w \in Vocabulary : AddWord(w) \in ToWorker
      /\ \A words \in SUBSET Vocabulary : Check(words) \in ToWorker
      /\ [type |-> "loaded"] \in ToMain /\ [type |-> "wordAdded"] \in ToMain
      /\ \A words \in SUBSET Vocabulary : [type |-> "result", words |-> words] \in ToMain
  BY DEF Load, AddWord, Check, ToWorker, ToMain
<1>q. /\ \A m \in ToWorker : toWorker \o <<m>> \in Seq(ToWorker)
      /\ \A m \in ToMain : Append(toMain, m) \in Seq(ToMain)
      /\ \A l \in Locales : Append(fetches, l) \in Seq(Locales)
  BY Queued
<1>1. CASE EnableSpell
  BY <1>1 DEF EnableSpell
<1>2. CASE RegisterSpellChecker
  <2>1. importing \in Locales /\ toWorker' = <<Load(importing)>>
    BY <1>2 DEF RegisterSpellChecker
  <2>2. toWorker' \in Seq(ToWorker)
    BY <1>0, <2>1
  <2>3. QED
    BY <1>2, <2>2 DEF RegisterSpellChecker
<1>3. CASE CleanupSpell
  <2>1. /\ text' = text /\ spellLocale' = spellLocale /\ importing' = importing /\ confused' = confused
        /\ spellEnabled' = FALSE /\ timer' = FALSE /\ marked' = {} /\ personalWords' = {} /\ checker' = NoLocale
        /\ toWorker' = <<>> /\ toMain' = <<>> /\ fetches' = <<>>
    BY <1>3 DEF CleanupSpell
  <2>2. toWorker' \in Seq(ToWorker) /\ toMain' \in Seq(ToMain) /\ fetches' \in Seq(Locales)
    BY <2>1
  <2>3. QED
    BY <2>1, <2>2
<1>4. ASSUME NEW locale \in Locales, SetLocale(locale) PROVE SpellTypes'
  <2>1. toWorker' \in Seq(ToWorker)
    BY <1>0, <1>q, <1>4 DEF SetLocale, Post
  <2>2. marked' \subseteq text /\ confused' \in BOOLEAN
    BY <1>4 DEF SetLocale, Loading
  <2>3. QED
    BY <1>4, <2>1, <2>2 DEF SetLocale
<1>5. ASSUME NEW words \in SUBSET Vocabulary, EditText(words) PROVE SpellTypes'
  BY <1>5 DEF EditText, Running
<1>6. ASSUME NEW word \in Vocabulary, ProvideCodeActions(word) PROVE SpellTypes'
  <2>1. toWorker' \in Seq(ToWorker)
    BY <1>0, <1>q, <1>6 DEF ProvideCodeActions, Post
  <2>2. QED
    BY <1>6, <2>1 DEF ProvideCodeActions
<1>7. CASE TimerFires
  <2>1. toWorker' \in Seq(ToWorker)
    BY <1>0, <1>q, <1>7 DEF TimerFires, Post
  <2>2. QED
    BY <1>7, <2>1 DEF TimerFires
<1>8. CASE HandleLoad
  <2>1. toWorker # <<>> /\ Head(toWorker).type = "load" /\ toWorker' = Tail(toWorker)
    BY <1>8 DEF HandleLoad
  <2>2. Head(toWorker) \in ToWorker /\ toWorker' \in Seq(ToWorker)
    BY <2>1, Taken
  <2>3. Head(toWorker).locale \in Locales
    BY <2>1, <2>2 DEF ToWorker
  <2>4. \/ toMain' = Append(toMain, [type |-> "loaded"]) /\ fetches' = fetches
        \/ fetches' = Append(fetches, Head(toWorker).locale) /\ toMain' = toMain
    BY <1>8 DEF HandleLoad, Reply
  <2>5. toMain' \in Seq(ToMain) /\ fetches' \in Seq(Locales)
    BY <1>0, <1>q, <2>3, <2>4
  <2>6. QED
    BY <1>8, <2>2, <2>5 DEF HandleLoad
<1>9. CASE HandleAddWord
  <2>1. toWorker # <<>> /\ Head(toWorker).type = "addWord" /\ toWorker' = Tail(toWorker)
    BY <1>9 DEF HandleAddWord
  <2>2. Head(toWorker) \in ToWorker /\ toWorker' \in Seq(ToWorker)
    BY <2>1, Taken
  <2>3. Head(toWorker).word \in Vocabulary
    BY <2>1, <2>2 DEF ToWorker
  <2>4. toMain' \in Seq(ToMain)
    BY <1>0, <1>q, <1>9 DEF HandleAddWord, Reply
  <2>5. QED
    BY <1>9, <2>2, <2>3, <2>4 DEF HandleAddWord
<1>10. CASE HandleCheck
  <2>1. toWorker # <<>> /\ Head(toWorker).type = "check" /\ toWorker' = Tail(toWorker)
    BY <1>10 DEF HandleCheck
  <2>2. Head(toWorker) \in ToWorker /\ toWorker' \in Seq(ToWorker)
    BY <2>1, Taken
  <2>3. Head(toWorker).words \in SUBSET Vocabulary
    BY <2>1, <2>2 DEF ToWorker
  <2>4. toMain' = Append(toMain, [type |-> "result", words |-> Misspelt(Head(toWorker).words)])
    BY <1>10 DEF HandleCheck, Reply
  <2>5. toMain' \in Seq(ToMain)
    BY <1>0, <1>q, <2>3, <2>4, MisspeltType
  <2>6. QED
    BY <1>10, <2>2, <2>5 DEF HandleCheck
<1>11. ASSUME NEW i \in DOMAIN fetches, FetchEnds(i) PROVE SpellTypes'
  <2>1. fetches' \in Seq(Locales)
    BY <1>11, Without1 DEF FetchEnds
  <2>2. toMain' = Append(toMain, [type |-> "loaded"]) \/ toMain' = toMain
    BY <1>11 DEF FetchEnds, Reply
  <2>3. toMain' \in Seq(ToMain)
    BY <1>0, <1>q, <2>2
  <2>4. fetches[i] \in Locales
    BY <1>11
  <2>5. checker' \in Locales \cup {NoLocale} /\ confused' \in BOOLEAN
    BY <1>11, <2>4 DEF FetchEnds
  <2>6. QED
    BY <1>11, <2>1, <2>3, <2>5 DEF FetchEnds
<1>12. CASE MessageArrives
  <2>1. toMain' \in Seq(ToMain)
    BY <1>12, Taken DEF MessageArrives
  <2>2. marked' \subseteq text /\ timer' \in BOOLEAN
    BY <1>12 DEF MessageArrives
  <2>3. QED
    BY <1>12, <2>1, <2>2 DEF MessageArrives
<1>13. CASE UNCHANGED spellVars
  BY <1>13 DEF spellVars
<1>14. QED
  BY <1>1, <1>2, <1>3, <1>4, <1>5, <1>6, <1>7, <1>8, <1>9, <1>10, <1>11, <1>12, <1>13 DEF SpellNext

---------------------------------------------------------------------------
(* The messages under way.                                                 *)

LEMMA StoppedStays == SpellTypes /\ Stopped /\ [SpellNext]_spellVars => Stopped'
<1> SUFFICES ASSUME SpellTypes, Stopped, [SpellNext]_spellVars PROVE Stopped'
  OBVIOUS
<1> USE DEF SpellTypes, SpellTypeOK, Stopped, Running, workerVars, controlVars
<1>1. CASE EnableSpell
  BY <1>1 DEF EnableSpell
<1>2. CASE RegisterSpellChecker
  BY <1>2 DEF RegisterSpellChecker
<1>3. CASE CleanupSpell
  BY <1>3 DEF CleanupSpell
<1>4. ASSUME NEW locale \in Locales, SetLocale(locale) PROVE Stopped'
  BY <1>4 DEF SetLocale
<1>5. ASSUME NEW words \in SUBSET Vocabulary, EditText(words) PROVE Stopped'
  BY <1>5 DEF EditText
<1>6. ASSUME NEW word \in Vocabulary, ProvideCodeActions(word) PROVE Stopped'
  BY <1>6 DEF ProvideCodeActions
<1>7. CASE TimerFires
  BY <1>7 DEF TimerFires
<1>8. CASE HandleLoad
  BY <1>8 DEF HandleLoad
<1>9. CASE HandleAddWord
  BY <1>9 DEF HandleAddWord
<1>10. CASE HandleCheck
  BY <1>10 DEF HandleCheck
<1>11. ASSUME NEW i \in DOMAIN fetches, FetchEnds(i) PROVE Stopped'
  BY <1>11 DEF FetchEnds
<1>12. CASE MessageArrives
  BY <1>12 DEF MessageArrives
<1>13. CASE UNCHANGED spellVars
  BY <1>13 DEF spellVars
<1>14. QED
  BY <1>1, <1>2, <1>3, <1>4, <1>5, <1>6, <1>7, <1>8, <1>9, <1>10, <1>11, <1>12, <1>13 DEF SpellNext

\* A language that is chosen while none is loaded will be there.
LEMMA LanguageStays ==
  ASSUME SpellTypes, Stopped, Running /\ ~confused => LanguageComes, [SpellNext]_spellVars,
         Running', ~confused'
  PROVE  LanguageComes'
<1> USE DEF SpellTypes, SpellTypeOK, workerVars, controlVars
<1>a. NoLocale \notin Locales
  OBVIOUS
<1>1. CASE EnableSpell
  BY <1>1 DEF EnableSpell, Running
<1>2. CASE RegisterSpellChecker
  <2>1. fetches' = <<>> /\ spellLocale' = spellLocale /\ toWorker' = <<Load(spellLocale)>>
    BY <1>2 DEF RegisterSpellChecker, Stopped, Running
  <2>2. DOMAIN toWorker' = {1} /\ toWorker'[1] = Load(spellLocale)
    BY <2>1
  <2>3. QED
    BY <2>1, <2>2 DEF LanguageComes, IsLoad, Load
<1>3. CASE CleanupSpell
  BY <1>3 DEF CleanupSpell, Running
<1> DEFINE NoLoad == \A i \in DOMAIN toWorker : ~IsLoad(i)
<1>q. ASSUME NEW m \in ToWorker, toWorker' = toWorker \o <<m>>
      PROVE  /\ DOMAIN toWorker = 1..Len(toWorker) /\ DOMAIN toWorker' = 1..(Len(toWorker) + 1)
             /\ Len(toWorker) \in Nat /\ toWorker'[Len(toWorker) + 1] = m
             /\ \A i \in DOMAIN toWorker : toWorker'[i] = toWorker[i]
  BY <1>q, Queued
<1>w. ASSUME NEW i \in DOMAIN toWorker', toWorker'[i] = Load(spellLocale'), fetches' = <<>>,
             \A j \in DOMAIN toWorker' : toWorker'[j].type = "load" => i = j
      PROVE  LanguageComes'
  BY <1>w DEF LanguageComes, IsLoad
<1>4. ASSUME NEW locale \in Locales, SetLocale(locale) PROVE LanguageComes'
  <2>1. /\ Running /\ ~confused /\ ~Loading /\ toWorker' = toWorker \o <<Load(locale)>>
        /\ spellLocale' = locale /\ fetches' = fetches
    BY <1>4 DEF SetLocale, Post, Running
  <2>2. fetches = <<>> /\ NoLoad
    BY <2>1 DEF Loading, IsLoad
  <2>3. Load(locale) \in ToWorker
    BY DEF Load, ToWorker
  <2>4. /\ Len(toWorker) + 1 \in DOMAIN toWorker' /\ toWorker'[Len(toWorker) + 1] = Load(spellLocale')
        /\ fetches' = <<>>
    BY <1>q, <2>1, <2>2, <2>3
  <2>5. \A j \in DOMAIN toWorker' : toWorker'[j].type = "load" => Len(toWorker) + 1 = j
    BY <1>q, <2>1, <2>2, <2>3 DEF IsLoad
  <2>6. QED
    BY <1>w, <2>4, <2>5
<1>p. ASSUME NEW m \in ToWorker, m.type # "load", toWorker' = toWorker \o <<m>>,
             UNCHANGED <<controlVars, fetches, checker, confused>>
      PROVE  LanguageComes'
  <2>1. LanguageComes
    BY <1>p DEF Running
  <2>2. \A j \in DOMAIN toWorker' : toWorker'[j].type = "load" => j \in DOMAIN toWorker /\ IsLoad(j)
    BY <1>q, <1>p DEF IsLoad
  <2>3. CASE NoLoad
    <3>1. \A i \in DOMAIN toWorker' : toWorker'[i].type # "load"
      BY <2>2, <2>3
    <3>2. fetches = <<spellLocale>> \/ (fetches = <<>> /\ checker = spellLocale)
      <4>1. \A i \in DOMAIN toWorker : toWorker[i] # Load(spellLocale)
        BY <2>3 DEF IsLoad, Load
      <4>2. QED
        BY <2>1, <4>1 DEF LanguageComes
    <3>3. QED
      BY <1>p, <3>1, <3>2 DEF LanguageComes, IsLoad
  <2>4. CASE ~NoLoad
    <3>1. fetches = <<>> /\ \E i \in DOMAIN toWorker :
            toWorker[i] = Load(spellLocale) /\ \A j \in DOMAIN toWorker : IsLoad(j) => i = j
      BY <2>1, <2>4 DEF LanguageComes
    <3>2. PICK i \in DOMAIN toWorker :
            toWorker[i] = Load(spellLocale) /\ \A j \in DOMAIN toWorker : IsLoad(j) => i = j
      BY <3>1
    <3>3. i \in DOMAIN toWorker' /\ toWorker'[i] = Load(spellLocale') /\ fetches' = <<>>
      BY <1>q, <1>p, <3>1, <3>2
    <3>4. \A j \in DOMAIN toWorker' : toWorker'[j].type = "load" => i = j
      BY <2>2, <3>2
    <3>5. QED
      BY <1>w, <3>3, <3>4
  <2>5. QED
    BY <2>3, <2>4
<1>5. ASSUME NEW words \in SUBSET Vocabulary, EditText(words) PROVE LanguageComes'
  BY <1>5 DEF EditText, LanguageComes, IsLoad, Running
<1>6. ASSUME NEW word \in Vocabulary, ProvideCodeActions(word) PROVE LanguageComes'
  <2>1. AddWord(word) \in ToWorker /\ AddWord(word).type # "load"
    BY DEF AddWord, ToWorker
  <2>2. QED
    BY <1>6, <1>p, <2>1 DEF ProvideCodeActions, Post
<1>7. CASE TimerFires
  <2>1. Check(text) \in ToWorker /\ Check(text).type # "load"
    BY DEF Check, ToWorker
  <2>2. QED
    BY <1>7, <1>p, <2>1 DEF TimerFires, Post
<1>t. ASSUME toWorker # <<>>, toWorker' = Tail(toWorker)
      PROVE  /\ Head(toWorker) = toWorker[1] /\ Head(toWorker) \in ToWorker
             /\ DOMAIN toWorker = 1..Len(toWorker) /\ Len(toWorker) \in Nat \ {0}
             /\ DOMAIN toWorker' = 1..(Len(toWorker) - 1)
             /\ \A i \in DOMAIN toWorker' : toWorker'[i] = toWorker[i + 1]
  BY <1>t, Taken
<1>8. CASE HandleLoad
  <2>1. /\ toWorker # <<>> /\ toWorker' = Tail(toWorker) /\ Head(toWorker).type = "load"
        /\ Running /\ ~confused /\ UNCHANGED <<spellLocale, checker>>
        /\ IF IsLoaded(Head(toWorker).locale) THEN UNCHANGED fetches
           ELSE fetches' = Append(fetches, Head(toWorker).locale)
    BY <1>8 DEF HandleLoad, Running
  <2>2. IsLoad(1) /\ 1 \in DOMAIN toWorker
    BY <1>t, <2>1 DEF IsLoad
  <2>3. fetches = <<>> /\ toWorker[1] = Load(spellLocale) /\ \A j \in DOMAIN toWorker : IsLoad(j) => j = 1
    BY <2>1, <2>2 DEF LanguageComes
  <2>4. \A i \in DOMAIN toWorker' : toWorker'[i].type # "load"
    BY <1>t, <2>1, <2>3 DEF IsLoad
  <2>5. Head(toWorker).locale = spellLocale
    BY <1>t, <2>1, <2>3 DEF Load
  <2>6. CASE checker = spellLocale
    BY <2>1, <2>3, <2>4, <2>5, <2>6 DEF LanguageComes, IsLoad, IsLoaded
  <2>7. CASE checker # spellLocale
    <3>1. fetches' = <<spellLocale>>
      BY <2>1, <2>3, <2>5, <2>7 DEF IsLoaded
    <3>2. QED
      BY <2>1, <2>4, <3>1 DEF LanguageComes, IsLoad
  <2>8. QED
    BY <2>6, <2>7
<1>r. ASSUME toWorker # <<>>, Head(toWorker).type # "load", toWorker' = Tail(toWorker),
             UNCHANGED <<controlVars, fetches, checker, confused>>
      PROVE  LanguageComes'
  <2>1. LanguageComes /\ UNCHANGED spellLocale
    BY <1>r DEF Running
  <2>2. ~IsLoad(1)
    BY <1>t, <1>r DEF IsLoad
  <2>3. CASE \A i \in DOMAIN toWorker : ~IsLoad(i)
    <3>1. \A i \in DOMAIN toWorker' : toWorker'[i].type # "load"
      BY <1>t, <1>r, <2>3 DEF IsLoad
    <3>2. fetches = <<spellLocale>> \/ (fetches = <<>> /\ checker = spellLocale)
      <4>1. \A i \in DOMAIN toWorker : toWorker[i] # Load(spellLocale)
        BY <2>3 DEF IsLoad, Load
      <4>2. QED
        BY <2>1, <4>1 DEF LanguageComes
    <3>3. QED
      BY <1>r, <2>1, <3>1, <3>2 DEF LanguageComes, IsLoad
  <2>4. CASE ~(\A i \in DOMAIN toWorker : ~IsLoad(i))
    <3>1. fetches = <<>> /\ \E i \in DOMAIN toWorker :
            toWorker[i] = Load(spellLocale) /\ \A j \in DOMAIN toWorker : IsLoad(j) => i = j
      BY <2>1, <2>4 DEF LanguageComes
    <3>2. PICK i \in DOMAIN toWorker :
            toWorker[i] = Load(spellLocale) /\ \A j \in DOMAIN toWorker : IsLoad(j) => i = j
      BY <3>1
    <3>3. i # 1
      BY <2>2, <3>2 DEF IsLoad, Load
    <3>4. i - 1 \in DOMAIN toWorker' /\ toWorker'[i - 1] = Load(spellLocale)
      BY <1>t, <1>r, <3>2, <3>3
    <3>5. \A j \in DOMAIN toWorker' : toWorker'[j].type = "load" => j = i - 1
      BY <1>t, <1>r, <3>2 DEF IsLoad
    <3>6. QED
      BY <1>r, <2>1, <3>1, <3>4, <3>5 DEF LanguageComes, IsLoad
  <2>5. QED
    BY <2>3, <2>4
<1>9. CASE HandleAddWord
  BY <1>9, <1>r DEF HandleAddWord
<1>10. CASE HandleCheck
  BY <1>10, <1>r DEF HandleCheck
<1>11. ASSUME NEW i \in DOMAIN fetches, FetchEnds(i) PROVE LanguageComes'
  <2>1. /\ Running /\ ~confused /\ fetches' = Without(fetches, i) /\ checker' = fetches[i]
        /\ UNCHANGED <<toWorker, spellLocale>>
    BY <1>11 DEF FetchEnds, Running
  <2>2. fetches # <<>>
    BY <1>11
  <2>3. fetches = <<spellLocale>> /\ NoLoad
    BY <2>1, <2>2 DEF LanguageComes
  <2>4. Len(fetches) = 1 /\ i = 1 /\ fetches[1] = spellLocale
    BY <1>11, <2>3
  <2>5. fetches' = <<>> /\ checker' = spellLocale
    BY <2>1, <2>4, Without1
  <2>6. QED
    BY <2>1, <2>3, <2>5 DEF LanguageComes, IsLoad
<1>12. CASE MessageArrives
  BY <1>12 DEF MessageArrives, LanguageComes, IsLoad, Running
<1>13. CASE UNCHANGED spellVars
  BY <1>13 DEF spellVars, LanguageComes, IsLoad, Running
<1>14. QED
  BY <1>1, <1>2, <1>3, <1>4, <1>5, <1>6, <1>7, <1>8, <1>9, <1>10, <1>11, <1>12, <1>13 DEF SpellNext
---------------------------------------------------------------------------
(* The marks.                                                              *)

\* Marks that are old will be replaced, whatever happens next.
LEMMA MarksStay ==
  ASSUME SpellTypes, Stopped, Running /\ ~confused => (TimerComes \/ LastCheckFits),
         [SpellNext]_spellVars, Running', ~confused'
  PROVE  TimerComes' \/ LastCheckFits'
<1> USE DEF SpellTypes, SpellTypeOK, workerVars, controlVars
<1>q. ASSUME NEW m \in ToWorker, toWorker' = toWorker \o <<m>>
      PROVE  /\ DOMAIN toWorker = 1..Len(toWorker) /\ Len(toWorker') = Len(toWorker) + 1
             /\ toWorker' # <<>> /\ toWorker'[Len(toWorker')] = m /\ Len(toWorker') \in DOMAIN toWorker'
  BY <1>q, Queued
<1>m. ASSUME NEW m \in ToMain, Reply(m)
      PROVE  /\ toMain' # <<>> /\ toMain'[Len(toMain')] = m /\ Len(toMain') \in DOMAIN toMain'
             /\ DOMAIN toMain \subseteq DOMAIN toMain' /\ \A i \in DOMAIN toMain : toMain'[i] = toMain[i]
  <2>1. toMain' = toMain \o <<m>>
    BY <1>m, Queued DEF Reply
  <2>2. QED
    BY <2>1, Queued
<1>t. ASSUME toWorker # <<>>, toWorker' = Tail(toWorker)
      PROVE  /\ Head(toWorker) = toWorker[1] /\ Head(toWorker) \in ToWorker
             /\ DOMAIN toWorker = 1..Len(toWorker) /\ Len(toWorker) \in Nat \ {0}
             /\ DOMAIN toWorker' = 1..(Len(toWorker) - 1) /\ Len(toWorker') = Len(toWorker) - 1
             /\ \A i \in DOMAIN toWorker' : toWorker'[i] = toWorker[i + 1]
             /\ (toWorker' = <<>>) <=> (Len(toWorker) = 1)
  BY <1>t, Taken
<1>f. /\ [type |-> "loaded"] \in ToMain /\ [type |-> "wordAdded"] \in ToMain
      /\ \A words \in SUBSET Vocabulary : [type |-> "result", words |-> words] \in ToMain
  BY DEF ToMain
<1>1. CASE EnableSpell
  <2>1. importing' \in Locales
    BY <1>1 DEF EnableSpell
  <2>2. QED
    BY <2>1, SpellAssumption DEF Running
<1>2. CASE RegisterSpellChecker
  BY <1>2 DEF RegisterSpellChecker, TimerComes
<1>3. CASE CleanupSpell
  BY <1>3 DEF CleanupSpell, Running
<1>4. ASSUME NEW locale \in Locales, SetLocale(locale) PROVE TimerComes'
  <2>1. Load(locale) \in ToWorker /\ Load(locale).type # "check"
    BY DEF Load, ToWorker
  <2>2. toWorker' = toWorker \o <<Load(locale)>>
    BY <1>4 DEF SetLocale, Post, Running
  <2>3. QED
    BY <1>q, <2>1, <2>2 DEF TimerComes
<1>5. ASSUME NEW words \in SUBSET Vocabulary, EditText(words) PROVE TimerComes'
  BY <1>5 DEF EditText, TimerComes, Running
<1>6. ASSUME NEW word \in Vocabulary, ProvideCodeActions(word) PROVE TimerComes'
  <2>1. AddWord(word) \in ToWorker /\ AddWord(word).type # "check"
    BY DEF AddWord, ToWorker
  <2>2. toWorker' = toWorker \o <<AddWord(word)>>
    BY <1>6 DEF ProvideCodeActions, Post
  <2>3. QED
    BY <1>q, <2>1, <2>2 DEF TimerComes
<1>7. CASE TimerFires
  <2>1. Check(text) \in ToWorker /\ Check(text).words = text
    BY DEF Check, ToWorker
  <2>2. toWorker' = toWorker \o <<Check(text)>> /\ text' = text
    BY <1>7 DEF TimerFires, Post
  <2>3. QED
    BY <1>q, <2>1, <2>2 DEF LastCheckFits
<1>8. CASE HandleLoad
  <2>1. CASE IsLoaded(Head(toWorker).locale)
    BY <1>8, <1>m, <1>f, <2>1 DEF HandleLoad, TimerComes
  <2>2. CASE ~IsLoaded(Head(toWorker).locale)
    <3>1. toWorker # <<>> /\ Head(toWorker).type = "load"
          /\ fetches' = Append(fetches, Head(toWorker).locale)
      BY <1>8, <2>2 DEF HandleLoad
    <3>2. Head(toWorker).locale \in Locales
      BY <3>1, Taken DEF ToWorker
    <3>3. fetches' # <<>>
      BY <3>1, <3>2, Queued
    <3>4. QED
      BY <3>3 DEF TimerComes
  <2>3. QED
    BY <2>1, <2>2
<1>9. CASE HandleAddWord
  BY <1>9, <1>m, <1>f DEF HandleAddWord, TimerComes
<1>10. CASE HandleCheck
  <2> DEFINE found == Misspelt(Head(toWorker).words)
  <2>1. /\ toWorker # <<>> /\ Head(toWorker).type = "check" /\ toWorker' = Tail(toWorker)
        /\ Reply([type |-> "result", words |-> found])
        /\ UNCHANGED <<text, timer, marked, checker, fetches, personalWords>> /\ Running /\ ~confused
    BY <1>10 DEF HandleCheck, Running
  <2>2. Head(toWorker).words \in SUBSET Vocabulary
    BY <2>1, Taken DEF ToWorker
  <2>3. /\ toMain' # <<>> /\ toMain'[Len(toMain')] = [type |-> "result", words |-> found]
        /\ DOMAIN toMain \subseteq DOMAIN toMain' /\ \A i \in DOMAIN toMain : toMain'[i] = toMain[i]
    BY <1>m, <1>f, <2>1, <2>2, MisspeltType
  <2>4. CASE timer \/ fetches # <<>> \/ \E i \in DOMAIN toMain : toMain[i].type # "result"
    BY <2>1, <2>3, <2>4 DEF TimerComes
  <2>5. CASE \E i \in DOMAIN toWorker : toWorker[i].type # "check"
    <3>1. PICK i \in DOMAIN toWorker : toWorker[i].type # "check"
      BY <2>5
    <3>2. i # 1
      BY <1>t, <2>1, <3>1
    <3>3. i - 1 \in DOMAIN toWorker' /\ toWorker'[i - 1] = toWorker[i]
      BY <1>t, <2>1, <3>2
    <3>4. QED
      BY <3>1, <3>3 DEF TimerComes
  <2>6. CASE LastCheckFits
    <3>1. toWorker[Len(toWorker)].words = text
      BY <2>1, <2>6 DEF LastCheckFits
    <3>2. CASE toWorker' = <<>>
      <4>1. Head(toWorker).words = text
        BY <1>t, <2>1, <3>1, <3>2
      <4>2. toMain'[Len(toMain')].words = Misspelt(text)
        BY <2>3, <4>1
      <4>3. Misspelt(text)' = Misspelt(text)
        BY <2>1 DEF Misspelt
      <4>4. QED
        BY <2>3, <3>2, <4>2, <4>3 DEF LastCheckFits
    <3>3. CASE toWorker' # <<>>
      <4>1. toWorker'[Len(toWorker')] = toWorker[Len(toWorker)]
        BY <1>t, <2>1, <3>3
      <4>2. QED
        BY <2>1, <3>1, <3>3, <4>1 DEF LastCheckFits
    <3>4. QED
      BY <3>2, <3>3
  <2>7. QED
    BY <2>1, <2>4, <2>5, <2>6 DEF TimerComes
<1>11. ASSUME NEW i \in DOMAIN fetches, FetchEnds(i) PROVE TimerComes'
  BY <1>11, <1>m, <1>f DEF FetchEnds, TimerComes
<1>12. CASE MessageArrives
  <2>1. /\ toMain # <<>> /\ toMain' = Tail(toMain) /\ Running /\ ~confused
        /\ UNCHANGED <<text, checker, personalWords, toWorker, fetches>>
    BY <1>12 DEF MessageArrives, Running
  <2>2. /\ Head(toMain) = toMain[1] /\ Len(toMain) \in Nat \ {0} /\ DOMAIN toMain = 1..Len(toMain)
        /\ Len(toMain') = Len(toMain) - 1 /\ DOMAIN toMain' = 1..(Len(toMain) - 1)
        /\ \A i \in DOMAIN toMain' : toMain'[i] = toMain[i + 1]
        /\ (toMain' = <<>>) <=> (Len(toMain) = 1)
    BY <2>1, Taken
  <2>3. CASE Head(toMain).type # "result"
    BY <1>12, <2>3 DEF MessageArrives, TimerComes
  <2> SUFFICES ASSUME Head(toMain).type = "result" PROVE TimerComes' \/ LastCheckFits'
    BY <2>3
  <2>4. marked' = Head(toMain).words \cap text /\ timer' = timer
    BY <1>12 DEF MessageArrives
  <2>5. CASE timer \/ fetches # <<>> \/ \E i \in DOMAIN toWorker : toWorker[i].type # "check"
    BY <2>1, <2>4, <2>5 DEF TimerComes
  <2>6. CASE \E i \in DOMAIN toMain : toMain[i].type # "result"
    <3>1. PICK i \in DOMAIN toMain : toMain[i].type # "result"
      BY <2>6
    <3>2. i # 1
      BY <2>2, <3>1
    <3>3. i - 1 \in DOMAIN toMain' /\ toMain'[i - 1] = toMain[i]
      BY <2>2, <3>2
    <3>4. QED
      BY <3>1, <3>3 DEF TimerComes
  <2>7. CASE LastCheckFits
    <3>1. Misspelt(text)' = Misspelt(text) /\ Misspelt(text) \subseteq text
      BY <2>1 DEF Misspelt
    <3>2. CASE toMain' = <<>>
      <4>1. toWorker = <<>> => Head(toMain).words = Misspelt(text)
        BY <2>1, <2>2, <2>7, <3>2 DEF LastCheckFits
      <4>2. toWorker = <<>> => marked' = Misspelt(text)
        BY <2>4, <3>1, <4>1
      <4>3. QED
        BY <2>1, <2>7, <3>1, <3>2, <4>2 DEF LastCheckFits
    <3>3. CASE toMain' # <<>>
      <4>0. Len(toMain') = Len(toMain) - 1 /\ Len(toMain) # 1 /\ Len(toMain) \in Nat \ {0}
        BY <2>2, <3>3
      <4>1. toMain'[Len(toMain')] = toMain[Len(toMain)]
        <5>1. Len(toMain) - 1 \in DOMAIN toMain' /\ Len(toMain) - 1 + 1 = Len(toMain)
          BY <2>2, <4>0
        <5>2. QED
          BY <2>2, <4>0, <5>1
      <4>2. QED
        BY <2>1, <2>7, <3>1, <3>3, <4>1 DEF LastCheckFits
    <3>4. QED
      BY <3>2, <3>3
  <2>8. QED
    BY <2>1, <2>5, <2>6, <2>7 DEF TimerComes
<1>13. CASE UNCHANGED spellVars
  BY <1>13 DEF spellVars, TimerComes, LastCheckFits, Misspelt, Running
<1>14. QED
  BY <1>1, <1>2, <1>3, <1>4, <1>5, <1>6, <1>7, <1>8, <1>9, <1>10, <1>11, <1>12, <1>13 DEF SpellNext

---------------------------------------------------------------------------
(* The theorems.                                                           *)

LEMMA SpellStart == SpellInit => SpellInv
<1> SUFFICES ASSUME SpellInit PROVE SpellInv
  OBVIOUS
<1>1. ~Running /\ toWorker = <<>> /\ toMain = <<>> /\ fetches = <<>>
  BY DEF SpellInit, Running
<1>2. <<>> \in Seq(Locales) /\ <<>> \in Seq(ToWorker) /\ <<>> \in Seq(ToMain)
  OBVIOUS
<1>3. SpellTypes
  BY <1>1, <1>2 DEF SpellInit, SpellTypes, SpellTypeOK
<1>4. Stopped
  BY <1>1 DEF SpellInit, Stopped
<1>5. QED
  BY <1>1, <1>3, <1>4 DEF SpellInv

LEMMA SpellStay == SpellInv /\ [SpellNext]_spellVars => SpellInv'
<1> SUFFICES ASSUME SpellInv, [SpellNext]_spellVars PROVE SpellInv'
  OBVIOUS
<1>1. SpellTypes' /\ Stopped'
  BY SpellTypesStay, StoppedStays DEF SpellInv
<1>2. ASSUME Running', ~confused' PROVE LanguageComes' /\ (TimerComes' \/ LastCheckFits')
  BY <1>2, LanguageStays, MarksStay DEF SpellInv
<1>3. QED
  BY <1>1, <1>2 DEF SpellInv

(* In every reachable state the messages are well formed, none is under    *)
(* way without a worker, and while no load failed or met a change of       *)
(* language the dictionary that is chosen is on its way or there, and the  *)
(* marks fit or are about to be replaced.                                  *)
THEOREM SpellInvariant == SpellSpec => []SpellInv
<1>1. SpellInit => SpellInv
  BY SpellStart
<1>2. SpellInv /\ [SpellNext]_spellVars => SpellInv'
  BY SpellStay
<1>3. QED
  BY <1>1, <1>2, PTL DEF SpellSpec

\* The variables of the editor and of the worker keep their types.
THEOREM SpellTypesCorrect == SpellSpec => []SpellTypeOK
<1>1. SpellInv => SpellTypeOK
  BY DEF SpellInv, SpellTypes
<1>2. QED
  BY <1>1, SpellInvariant, PTL

(* When everything has been answered the marks are those of the text, the  *)
(* language and the personal dictionary as they are now, although neither  *)
(* the check nor its result says what it belongs to; unless a dictionary   *)
(* failed to load, or the language was changed while one was loading.      *)
THEOREM MarksFitText == SpellSpec => []MarksFit
<1>1. SpellInv => MarksFit
  <2> SUFFICES ASSUME SpellInv, Settled, ~confused
               PROVE  checker = spellLocale /\ marked = text \ (personalWords \cup Correct[spellLocale])
    BY DEF MarksFit
  <2>1. /\ Running /\ ~timer /\ toWorker = <<>> /\ toMain = <<>> /\ fetches = <<>>
        /\ LanguageComes /\ (TimerComes \/ LastCheckFits)
    BY DEF SpellInv, Settled
  <2>2. DOMAIN toWorker = {} /\ DOMAIN toMain = {}
    BY <2>1
  <2>3. checker = spellLocale
    BY <2>1, <2>2 DEF LanguageComes
  <2>4. marked = Misspelt(text)
    BY <2>1, <2>2 DEF TimerComes, LastCheckFits
  <2>5. checker # NoLocale
    BY <2>3, SpellAssumption DEF SpellInv, SpellTypes, SpellTypeOK
  <2>6. QED
    BY <2>3, <2>4, <2>5 DEF Misspelt
<1>2. QED
  BY <1>1, SpellInvariant, PTL

---------------------------------------------------------------------------
(* SourceMap.                                                              *)

SourceRecords == Seq(SourceRecord)

\* The heights of the records are between two numbers.
Bounded(records) ==
  \E low, high \in Int : \A i \in DOMAIN records : low <= records[i].v /\ records[i].v <= high

SyncInv == SyncTypeOK /\ Bounded(parser.records) /\ JumpInv(pdfEditor, STRING)

---------------------------------------------------------------------------
(* Smallest and largest numbers.                                           *)

HIDE SpellAssumption
USE SourceMapAssumption

LEMMA MinOfBounded ==
  ASSUME NEW S \in SUBSET Int, S # {}, NEW low \in Int, \A s \in S : low <= s
  PROVE  Min(S) \in S /\ \A s \in S : Min(S) <= s
<1> DEFINE T == {s - low : s \in S}
<1>1. \A s \in S : s - low \in Nat
  OBVIOUS
<1>2. T \in SUBSET Nat /\ T # {}
  BY <1>1
<1>3. Min(T) \in T /\ \A n \in T : Min(T) <= n
  BY <1>2, MinOfNaturals
<1>4. PICK m \in S : Min(T) = m - low
  BY <1>3
<1>5. \A s \in S : m - low <= s - low
  BY <1>3, <1>4
<1>6. \A s \in S : m <= s
  BY <1>5
<1>7. QED
  BY <1>6 DEF Min

LEMMA MaxOfBounded ==
  ASSUME NEW S \in SUBSET Int, S # {}, NEW high \in Int, \A s \in S : s <= high
  PROVE  Max(S) \in S /\ \A s \in S : s <= Max(S)
<1> DEFINE T == {high - s : s \in S}
<1>1. \A s \in S : high - s \in Nat
  OBVIOUS
<1>2. T \in SUBSET Nat /\ T # {}
  BY <1>1
<1>3. Min(T) \in T /\ \A n \in T : Min(T) <= n
  BY <1>2, MinOfNaturals
<1>4. PICK m \in S : Min(T) = high - m
  BY <1>3
<1>5. \A s \in S : high - m <= high - s
  BY <1>3, <1>4
<1>6. \A s \in S : m >= s
  BY <1>5
<1>7. Max(S) \in S /\ \A s \in S : Max(S) >= s
  BY <1>6 DEF Max
<1>8. QED
  BY <1>7

---------------------------------------------------------------------------
(* The parser.                                                             *)

LEMMA SyncStart == SyncInit => SyncInv
<1> SUFFICES ASSUME SyncInit PROVE SyncInv
  OBVIOUS
<1>1. <<>> \in SourceRecords /\ DOMAIN <<>> = {}
  BY DEF SourceRecords
<1>2. JumpInv(pdfEditor, STRING) /\ pdfEditor.clicks = 0
  <2>1. Head(Listed) \in STRING
    OBVIOUS
  <2>2. QED
    BY <2>1, JumpStarts DEF SyncInit
<1>3. parser.records = <<>> /\ SyncTypeOK
  BY <1>1, <1>2 DEF SyncInit, SyncTypeOK, SourceRecords, JumpInv
<1>4. Bounded(parser.records)
  BY <1>1, <1>3 DEF Bounded
<1>5. QED
  BY <1>2, <1>3, <1>4 DEF SyncInv

\* One more record leaves them bounded.
LEMMA RecordRead ==
  ASSUME NEW records \in SourceRecords, Bounded(records),
         NEW r \in SourceRecord
  PROVE  Append(records, r) \in SourceRecords /\ Bounded(Append(records, r))
<1>1. Append(records, r) \in SourceRecords
  BY DEF SourceRecords
<1>2. PICK low \in Int, high \in Int : \A i \in DOMAIN records : low <= records[i].v /\ records[i].v <= high
  BY DEF Bounded
<1>3. \A i \in DOMAIN Append(records, r) : Append(records, r)[i] = r \/ \E j \in DOMAIN records : Append(records, r)[i] = records[j]
  BY DEF SourceRecords
<1>4. \A i \in DOMAIN records : records[i].v \in Int
  <2>1. \A i \in DOMAIN records : records[i] \in SourceRecord
    BY DEF SourceRecords
  <2>2. QED
    BY <2>1 DEF SourceRecord
<1>5. r.v \in Int
  BY DEF SourceRecord
<1> DEFINE lower == IF low <= r.v THEN low ELSE r.v
           higher == IF r.v <= high THEN high ELSE r.v
<1>6. lower \in Int /\ higher \in Int /\ lower <= r.v /\ r.v <= higher
      /\ \A i \in DOMAIN records : lower <= records[i].v /\ records[i].v <= higher
  BY <1>2, <1>4, <1>5
<1>7. \A i \in DOMAIN Append(records, r) : lower <= Append(records, r)[i].v /\ Append(records, r)[i].v <= higher
  BY <1>3, <1>6
<1>8. QED
  BY <1>1, <1>6, <1>7 DEF Bounded

---------------------------------------------------------------------------
(* The click.                                                              *)

Own(records, pg) == {i \in DOMAIN records : records[i].page = pg}

\* What a record is.
LEMMA RecordType ==
  ASSUME NEW records \in SourceRecords, NEW i \in DOMAIN records
  PROVE  i \in Nat /\ records[i] \in SourceRecord /\ records[i].v \in Int
<1>1. i \in Nat /\ records[i] \in SourceRecord
  BY DEF SourceRecords
<1>2. QED
  BY <1>1 DEF SourceRecord

\* The scale of a page that has records goes from the lowest to the highest.
LEMMA StatsType ==
  ASSUME NEW records \in SourceRecords, Bounded(records), NEW pg, Own(records, pg) # {}
  PROVE  /\ PageStats(records, pg).vMin \in Int /\ PageStats(records, pg).vMax \in Int
         /\ \A i \in Own(records, pg) : /\ PageStats(records, pg).vMin <= records[i].v
                                          /\ records[i].v <= PageStats(records, pg).vMax
         /\ \E i \in Own(records, pg) : records[i].v = PageStats(records, pg).vMin
         /\ \E i \in Own(records, pg) : records[i].v = PageStats(records, pg).vMax
<1> DEFINE heights == {r.v : r \in {q \in ToSet(records) : q.page = pg}}
<1>1. heights \in SUBSET Int
  <2> SUFFICES ASSUME NEW h \in heights PROVE h \in Int
    OBVIOUS
  <2>1. PICK r \in {q \in ToSet(records) : q.page = pg} : h = r.v
    OBVIOUS
  <2>2. PICK i \in DOMAIN records : r = records[i]
    BY DEF ToSet
  <2>3. QED
    BY <2>1, <2>2, RecordType
<1>2. /\ \A i \in Own(records, pg) : records[i].v \in heights
      /\ \A h \in heights : \E i \in Own(records, pg) : records[i].v = h
  BY DEF Own, ToSet
<1>3. heights # {}
  BY <1>2
<1>4. PICK low \in Int, high \in Int : \A i \in DOMAIN records : low <= records[i].v /\ records[i].v <= high
  BY DEF Bounded
<1>5. \A h \in heights : low <= h /\ h <= high
  BY <1>4 DEF ToSet
<1>6. PageStats(records, pg).vMin = Min(heights) /\ PageStats(records, pg).vMax = Max(heights)
  BY DEF PageStats
<1> HIDE DEF heights
<1>7. /\ Min(heights) \in heights /\ \A h \in heights : Min(heights) <= h
      /\ Max(heights) \in heights /\ \A h \in heights : h <= Max(heights)
  BY <1>1, <1>3, <1>5, MinOfBounded, MaxOfBounded
<1>8. QED
  BY <1>1, <1>2, <1>6, <1>7

\* A distance is a number that is not negative.
LEMMA DistanceType ==
  ASSUME NEW stats, stats.vMin \in Int, stats.vMax \in Int, NEW r \in SourceRecord, NEW y \in Int
  PROVE  Distance(stats, r, y) \in Nat
<1>1. r.v \in Int /\ Grid \in Int
  BY DEF SourceRecord
<1> DEFINE range == stats.vMax - stats.vMin
           d == IF range > 0 THEN 2 * (r.v - stats.vMin) * Grid - 2 * y * range ELSE Grid - 2 * y
<1>2. d \in Int
  <2> DEFINE v == r.v - stats.vMin
  <2>1. range \in Int /\ v \in Int /\ Grid \in Int /\ d = IF range > 0 THEN 2 * v * Grid - 2 * y * range ELSE Grid - 2 * y
    BY <1>1
  <2> HIDE DEF range, v, d
  <2>2. 2 * v * Grid \in Int /\ 2 * y * range \in Int
    BY <2>1
  <2>3. QED
    BY <2>1, <2>2
<1>3. Distance(stats, r, y) = IF d < 0 THEN -d ELSE d
  BY DEF Distance
<1> HIDE DEF d
<1>4. QED
  BY <1>2, <1>3

\* The record that is found is the nearest one of the page.
LEMMA FoundIsNearest ==
  ASSUME NEW records \in SourceRecords, Bounded(records), NEW pg, Own(records, pg) # {},
         NEW y \in Int
  PROVE  \E k \in Own(records, pg) :
           /\ FindSource(records, pg, y) = records[k]
           /\ \A j \in Own(records, pg) :
                Distance(PageStats(records, pg), records[k], y)
                  <= Distance(PageStats(records, pg), records[j], y)
<1> DEFINE stats == PageStats(records, pg)
           own == Own(records, pg)
           D(i) == Distance(stats, records[i], y)
           nearest == {i \in own : \A j \in own : D(i) <= D(j)}
           distances == {D(i) : i \in own}
<1>1. \A i \in own : D(i) \in Nat
  <2>1. stats.vMin \in Int /\ stats.vMax \in Int
    BY StatsType
  <2>2. \A i \in own : records[i] \in SourceRecord
    BY RecordType DEF Own
  <2>3. QED
    BY <2>1, <2>2, DistanceType
<1>2. Min(distances) \in distances /\ \A n \in distances : Min(distances) <= n
  <2>1. distances \in SUBSET Nat /\ distances # {}
    BY <1>1
  <2>2. QED
    BY <2>1, MinOfNaturals
<1>3. nearest # {}
  <2>1. PICK i \in own : Min(distances) = D(i)
    BY <1>2
  <2>2. \A j \in own : D(i) <= D(j)
    BY <1>2, <2>1
  <2>3. QED
    BY <2>2
<1>4. nearest \in SUBSET Nat
  BY RecordType DEF Own
<1>5. Min(nearest) \in nearest
  <2> HIDE DEF nearest
  <2> QED
    BY <1>3, <1>4, MinOfNaturals
<1>6. FindSource(records, pg, y) = records[Min(nearest)]
  BY DEF FindSource, Own
<1>7. Min(nearest) \in own /\ \A j \in own : D(Min(nearest)) <= D(j)
  BY <1>5
<1>8. QED
  BY <1>6, <1>7

\* Of two places, the nearer one is not lower to a point and higher to a lower one.
LEMMA Nearer ==
  ASSUME NEW p \in Int, NEW q \in Int, NEW c \in Int, NEW b \in Int, b > 0, p > q,
         (IF p - c < 0 THEN -(p - c) ELSE p - c) <= (IF q - c < 0 THEN -(q - c) ELSE q - c),
         (IF q - (c + b) < 0 THEN -(q - (c + b)) ELSE q - (c + b))
           <= (IF p - (c + b) < 0 THEN -(p - (c + b)) ELSE p - (c + b))
  PROVE  FALSE
OBVIOUS

\* A product with Grid keeps the order.
LEMMA Scaled ==
  ASSUME NEW u \in Int, NEW w \in Int
  PROVE  /\ u > w => 2 * u * Grid > 2 * w * Grid
         /\ 2 * u * Grid = 2 * w * Grid => u = w
<1>1. Grid \in Int /\ Grid > 0
  OBVIOUS
<1>2. \A x \in Int : x > 0 => x * Grid > 0
  BY <1>1
<1>3. ASSUME NEW s \in Int, NEW t \in Int, s > t PROVE 2 * s * Grid > 2 * t * Grid
  <2>1. (s - t) * Grid > 0
    BY <1>2, <1>3
  <2>2. 2 * s * Grid - 2 * t * Grid = 2 * ((s - t) * Grid)
    BY <1>1
  <2>3. 2 * s * Grid \in Int /\ 2 * t * Grid \in Int /\ (s - t) * Grid \in Int
    BY <1>1
  <2>4. QED
    BY <2>1, <2>2, <2>3
<1>4. ASSUME 2 * u * Grid = 2 * w * Grid, u # w PROVE FALSE
  <2>1. u > w \/ w > u
    BY <1>4
  <2>2. 2 * u * Grid > 2 * w * Grid \/ 2 * w * Grid > 2 * u * Grid
    BY <1>3, <2>1
  <2>3. 2 * u * Grid \in Int /\ 2 * w * Grid \in Int
    BY <1>1
  <2>4. QED
    BY <1>4, <2>2, <2>3
<1>5. QED
  BY <1>3, <1>4

(* Of two clicks on a page that has records, the lower one never leads to  *)
(* a higher record: if it did, each of the two records would be nearer to  *)
(* the click on the other side of the middle between them.                 *)
LEMMA LowerClick ==
  ASSUME NEW records \in SourceRecords, Bounded(records), NEW pg, Own(records, pg) # {},
         NEW y \in Int
  PROVE  FindSource(records, pg, y).v <= FindSource(records, pg, y + 1).v
<1> DEFINE stats == PageStats(records, pg)
           own == Own(records, pg)
           range == stats.vMax - stats.vMin
<1>1. /\ stats.vMin \in Int /\ stats.vMax \in Int /\ range \in Int /\ Grid \in Int
      /\ \A i \in own : stats.vMin <= records[i].v /\ records[i].v <= stats.vMax /\ records[i].v \in Int
  BY StatsType, RecordType DEF Own
<1>2. PICK k \in own : /\ FindSource(records, pg, y) = records[k]
                       /\ \A j \in own : Distance(stats, records[k], y) <= Distance(stats, records[j], y)
  BY FoundIsNearest
<1>3. PICK m \in own :
        /\ FindSource(records, pg, y + 1) = records[m]
        /\ \A j \in own : Distance(stats, records[m], y + 1) <= Distance(stats, records[j], y + 1)
  BY FoundIsNearest
<1>4. CASE range <= 0
  BY <1>1, <1>2, <1>3, <1>4
<1>5. CASE range > 0
  <2> SUFFICES ASSUME records[k].v > records[m].v PROVE FALSE
    BY <1>1, <1>2, <1>3
  <2> DEFINE p == 2 * (records[k].v - stats.vMin) * Grid
             q == 2 * (records[m].v - stats.vMin) * Grid
             c == 2 * y * range
             b == 2 * range
  <2>1. p \in Int /\ q \in Int /\ c \in Int /\ b \in Int /\ b > 0
    <3>1. \A d \in Int : d * Grid \in Int /\ 2 * d * Grid \in Int
      BY <1>1
    <3>2. records[k].v - stats.vMin \in Int /\ records[m].v - stats.vMin \in Int
      BY <1>1
    <3>3. p \in Int /\ q \in Int
      BY <3>1, <3>2
    <3>4. \A d \in Int : 2 * y * d \in Int
      OBVIOUS
    <3>5. c \in Int
      BY <1>1, <3>4
    <3>6. b \in Int /\ b > 0
      BY <1>1, <1>5
    <3>7. QED
      BY <3>3, <3>5, <3>6
  <2>2. p > q
    <3>1. records[k].v - stats.vMin > records[m].v - stats.vMin
      BY <1>1
    <3>2. records[k].v - stats.vMin \in Int /\ records[m].v - stats.vMin \in Int
      BY <1>1
    <3>3. QED
      BY <3>1, <3>2, Scaled
  <2>3. 2 * (y + 1) * range = c + b
    BY <1>1
  <2>4. /\ Distance(stats, records[k], y) = IF p - c < 0 THEN -(p - c) ELSE p - c
        /\ Distance(stats, records[m], y) = IF q - c < 0 THEN -(q - c) ELSE q - c
    BY <1>5 DEF Distance
  <2>5. /\ Distance(stats, records[k], y + 1) = IF p - (c + b) < 0 THEN -(p - (c + b)) ELSE p - (c + b)
        /\ Distance(stats, records[m], y + 1) = IF q - (c + b) < 0 THEN -(q - (c + b)) ELSE q - (c + b)
    BY <1>5, <2>3 DEF Distance
  <2>6. /\ Distance(stats, records[k], y) <= Distance(stats, records[m], y)
        /\ Distance(stats, records[m], y + 1) <= Distance(stats, records[k], y + 1)
    BY <1>2, <1>3
  <2> HIDE DEF p, q, c, b
  <2>7. QED
    BY <2>1, <2>2, <2>4, <2>5, <2>6, Nearer
<1>6. QED
  BY <1>1, <1>4, <1>5

(* A click on a record finds a record at its height: if it divides the     *)
(* page as the record divides its scale, the distance is zero.             *)
LEMMA ExactClick ==
  ASSUME NEW records \in SourceRecords, Bounded(records), NEW pg, NEW i \in Own(records, pg),
         NEW y \in Int, NEW low, low = PageStats(records, pg).vMin, NEW high, high = PageStats(records, pg).vMax,
         (records[i].v - low) * Grid = y * (high - low)
  PROVE  \E k \in Own(records, pg) :
           FindSource(records, pg, y) = records[k] /\ records[k].v = records[i].v
<1> DEFINE stats == PageStats(records, pg)
           own == Own(records, pg)
           range == stats.vMax - stats.vMin
<1>1. /\ stats.vMin \in Int /\ stats.vMax \in Int /\ range \in Int /\ Grid \in Int
      /\ \A j \in own : stats.vMin <= records[j].v /\ records[j].v <= stats.vMax /\ records[j].v \in Int
  <2>1. Own(records, pg) # {} /\ \A j \in own : records[j].v \in Int
    BY RecordType DEF Own
  <2>2. /\ stats.vMin \in Int /\ stats.vMax \in Int
        /\ \A j \in own : stats.vMin <= records[j].v /\ records[j].v <= stats.vMax
    BY <2>1, StatsType
  <2>3. QED
    BY <2>1, <2>2
<1>2. PICK k \in own : /\ FindSource(records, pg, y) = records[k]
                       /\ \A j \in own : Distance(stats, records[k], y) <= Distance(stats, records[j], y)
  BY FoundIsNearest
<1>3. CASE range <= 0
  <2>1. \A j \in own : records[j].v = stats.vMin
    <3> TAKE j \in own
    <3> DEFINE v == records[j].v  x == stats.vMin  z == stats.vMax
    <3>1. v \in Int /\ x \in Int /\ z \in Int /\ z - x <= 0 /\ x <= v /\ v <= z
      BY <1>1, <1>3
    <3> HIDE DEF v, x, z
    <3>2. v = x
      BY <3>1
    <3>3. QED
      BY <3>2 DEF v, x
  <2>2. QED
    BY <1>2, <2>1
<1>4. CASE range > 0
  <2> DEFINE p == 2 * (records[k].v - stats.vMin) * Grid
             q == 2 * (records[i].v - stats.vMin) * Grid
             c == 2 * y * range
  <2>1. p \in Int /\ q \in Int /\ c \in Int
    <3>1. \A d \in Int : d * Grid \in Int /\ 2 * d * Grid \in Int
      BY <1>1
    <3>2. records[k].v - stats.vMin \in Int /\ records[i].v - stats.vMin \in Int
      BY <1>1
    <3>3. p \in Int /\ q \in Int
      BY <3>1, <3>2
    <3>4. \A d \in Int : 2 * y * d \in Int
      OBVIOUS
    <3>5. c \in Int
      BY <1>1, <3>4
    <3>6. QED
      BY <3>3, <3>5
  <2>2. q = c
    <3> DEFINE a == records[i].v - stats.vMin  r == range  g == Grid
    <3>1. a \in Int /\ r \in Int /\ g \in Int /\ a * g = y * r
      BY <1>1
    <3>2. q = 2 * a * g /\ c = 2 * y * r
      OBVIOUS
    <3> HIDE DEF a, r, g, q, c
    <3>3. 2 * a * g = 2 * (a * g) /\ 2 * y * r = 2 * (y * r)
      BY <3>1
    <3>4. QED
      BY <3>1, <3>2, <3>3
  <2>3. /\ Distance(stats, records[k], y) = IF p - c < 0 THEN -(p - c) ELSE p - c
        /\ Distance(stats, records[i], y) = IF q - c < 0 THEN -(q - c) ELSE q - c
    BY <1>4 DEF Distance
  <2>4. Distance(stats, records[k], y) <= Distance(stats, records[i], y)
    BY <1>2
  <2>5. p = q
    <3> HIDE DEF p, q, c
    <3> QED
      BY <2>1, <2>2, <2>3, <2>4
  <2>6. records[k].v - stats.vMin \in Int /\ records[i].v - stats.vMin \in Int
    BY <1>1
  <2>7. records[k].v - stats.vMin = records[i].v - stats.vMin
    BY <2>5, <2>6, Scaled
  <2>8. records[k].v = records[i].v
    BY <1>1, <2>7
  <2>9. QED
    BY <1>2, <2>8
<1>5. QED
  BY <1>1, <1>3, <1>4

\* If one path only ends in the name, it is opened.
LEMMA TargetFits ==
  ASSUME NEW name, NEW i \in DOMAIN Listed,
         {k \in DOMAIN Listed : name \in EndsIn[Listed[k]]} = {i}
  PROVE  TargetFile(name) = Listed[i]
<1>1. {i} \in SUBSET Nat
  OBVIOUS
<1>2. Min({i}) = i
  BY <1>1, MinOfNaturals
<1>3. QED
  BY <1>2 DEF TargetFile

\* A click that leads somewhere leads to a line of a file.
LEMMA PlaceType ==
  ASSUME parser.records \in SourceRecords, Bounded(parser.records), NEW pg, NEW y \in Int,
         SourceOf(pg, y) # NoSource
  PROVE  PlaceOf(pg, y) \in Place(STRING)
<1> DEFINE records == parser.records
           z == ClampToPage(y)
           name == SourceOf(pg, y).file
           at == {i \in DOMAIN Listed : name \in EndsIn[Listed[i]]}
<1>1. z \in Int
  BY DEF ClampToPage
<1>2. Own(records, pg) # {}
  BY DEF Own, SourceOf, FindSource
<1> HIDE DEF z
<1>3. PICK k \in Own(records, pg) : FindSource(records, pg, z) = records[k]
  BY <1>1, <1>2, FoundIsNearest
<1>4. SourceOf(pg, y) \in SourceRecord
  BY <1>3, RecordType DEF Own, SourceOf, z
<1>5. name \in STRING /\ SourceOf(pg, y).line \in Nat
  BY <1>4 DEF SourceRecord
<1>6. TargetFile(name) \in STRING
  <2>1. at # {} => Min(at) \in DOMAIN Listed
    <3>1. at \in SUBSET Nat /\ at \subseteq DOMAIN Listed
      OBVIOUS
    <3> HIDE DEF at
    <3>2. QED
      BY <3>1, MinOfNaturals
  <2>2. \A i \in DOMAIN Listed : Listed[i] \in STRING
    OBVIOUS
  <2>3. TargetFile(name) = IF at = {} THEN name ELSE Listed[Min(at)]
    BY DEF TargetFile
  <2> HIDE DEF at
  <2>4. QED
    BY <1>5, <2>1, <2>2, <2>3
<1> HIDE DEF name
<1>7. QED
  BY <1>5, <1>6 DEF PlaceOf, Place, name

LEMMA SyncStay == SyncInv /\ [SyncNext]_syncVars => SyncInv'
<1> SUFFICES ASSUME SyncInv, [SyncNext]_syncVars PROVE SyncInv'
  OBVIOUS
<1>1. ASSUME NEW l \in SyncLines, SyncGrows(l) PROVE SyncInv'
  <2>1. parser' = ReadLine(parser, l) /\ l \in SyncLine
    BY <1>1 DEF SyncGrows
  <2>2. /\ parser.inputs \in Seq(InputLine) /\ parser.page \in Nat /\ parser.content \in BOOLEAN
        /\ parser.records \in SourceRecords /\ Bounded(parser.records)
        /\ parser \in [inputs : Seq(InputLine), page : Nat, content : BOOLEAN, records : SourceRecords]
    BY DEF SyncInv, SyncTypeOK, SourceRecords
  <2>9. pdfEditor' = pdfEditor /\ JumpInv(pdfEditor, STRING) /\ JumpInv(pdfEditor, STRING)'
    BY <1>1 DEF SyncGrows, SyncInv, JumpInv, Waiting
  <2> DEFINE p == InputOf(parser, l.id)
             r == [page |-> parser.page, file |-> p, line |-> l.line, v |-> l.v]
  <2>3. CASE l.kind = "input"
    <3>1. l \in InputLine
      BY <2>1, <2>3 DEF SyncLine, InputLine
    <3>2. parser' = [parser EXCEPT !.inputs = Append(parser.inputs, l)]
      BY <2>1, <2>3 DEF ReadLine
    <3>3. Append(parser.inputs, l) \in Seq(InputLine)
      BY <2>2, <3>1
    <3>4. parser'.records = parser.records /\ SyncTypeOK'
      <4>1. parser' \in [inputs : Seq(InputLine), page : Nat, content : BOOLEAN, records : SourceRecords]
            /\ parser'.records = parser.records
        BY <2>2, <3>2, <3>3
      <4>2. QED
        BY <2>9, <4>1 DEF SyncTypeOK, SyncInv, SourceRecords
    <3>5. QED
      BY <2>2, <2>9, <3>4 DEF SyncInv
  <2>4. CASE l.kind = "content"
    <3>1. parser' = [parser EXCEPT !.content = TRUE]
      BY <2>1, <2>4 DEF ReadLine
    <3>2. QED
      BY <2>2, <2>9, <3>1 DEF SyncInv, SyncTypeOK, SourceRecords
  <2>5. CASE l.kind = "page" /\ parser.content
    <3>1. parser' = [parser EXCEPT !.page = l.page]
      BY <2>1, <2>5 DEF ReadLine
    <3>2. l.page \in Nat
      BY <2>1, <2>5 DEF SyncLine, InputLine
    <3>3. QED
      BY <2>2, <2>9, <3>1, <3>2 DEF SyncInv, SyncTypeOK, SourceRecords
  <2>6. CASE l.kind = "box" /\ parser.content /\ parser.page > 0 /\ p \in SourceNames
    <3>1. parser' = [parser EXCEPT !.records = Append(parser.records, r)]
      BY <2>1, <2>6 DEF ReadLine
    <3>2. l.line \in Nat /\ l.v \in Int
      BY <2>1, <2>6 DEF SyncLine, InputLine
    <3>3. r \in SourceRecord
      BY <2>2, <2>6, <3>2 DEF SourceRecord
    <3>4. Append(parser.records, r) \in SourceRecords /\ Bounded(Append(parser.records, r))
      BY <2>2, <3>3, RecordRead
    <3>5. parser'.records = Append(parser.records, r)
      BY <2>2, <3>1
    <3>6. SyncTypeOK'
      <4>1. parser' \in [inputs : Seq(InputLine), page : Nat, content : BOOLEAN, records : SourceRecords]
        BY <2>2, <3>1, <3>4
      <4>2. QED
        BY <2>9, <4>1 DEF SyncTypeOK, SyncInv, SourceRecords
    <3>7. QED
      BY <2>9, <3>4, <3>5, <3>6 DEF SyncInv
  <2>7. CASE parser' = parser
    BY <2>7, <2>9 DEF SyncInv, SyncTypeOK
  <2>8. QED
    BY <2>1, <2>3, <2>4, <2>5, <2>6, <2>7 DEF ReadLine
<1>2. ASSUME NEW pg, NEW y \in Int, DoubleClick(pg, y) PROVE SyncInv'
  <2>1. /\ pdfEditor' = Clicked(pdfEditor, PlaceOf(pg, y)) /\ pdfEditor.clicks < MaxClicks
        /\ SourceOf(pg, y) # NoSource /\ parser' = parser
    BY <1>2 DEF DoubleClick
  <2>2. /\ JumpInv(pdfEditor, STRING) /\ pdfEditor.clicks \in Nat
        /\ parser.records \in SourceRecords /\ Bounded(parser.records)
    BY DEF SyncInv, SyncTypeOK, JumpInv, Editor, SourceRecords
  <2>3. PlaceOf(pg, y) \in Place(STRING)
    BY <2>1, <2>2, PlaceType
  <2>4. JumpInv(pdfEditor', STRING) /\ pdfEditor'.clicks = pdfEditor.clicks + 1
    BY <2>1, <2>2, <2>3, JumpIsAsked
  <2>5. pdfEditor'.clicks <= MaxClicks
    BY <2>1, <2>2, <2>4
  <2>6. QED
    BY <2>1, <2>4, <2>5 DEF SyncInv, SyncTypeOK, JumpInv
<1>3. CASE PdfTextLoads \/ PdfTimer
  <2>1. parser' = parser
    BY <1>3 DEF PdfTextLoads, PdfTimer
  <2>2. JumpInv(pdfEditor, STRING)
    BY DEF SyncInv
  <2>3. JumpInv(pdfEditor', STRING) /\ pdfEditor'.clicks = pdfEditor.clicks
    BY <1>3, <2>2, JumpShowsText, JumpTimer DEF PdfTextLoads, PdfTimer
  <2>4. QED
    BY <2>1, <2>3 DEF SyncInv, SyncTypeOK, JumpInv
<1>4. CASE UNCHANGED syncVars
  BY <1>4 DEF syncVars, SyncInv, SyncTypeOK, JumpInv, Waiting
<1>5. (-1)..(Grid + 1) \subseteq Int
  OBVIOUS
<1>6. QED
  BY <1>1, <1>2, <1>3, <1>4, <1>5 DEF SyncNext

---------------------------------------------------------------------------
(* The theorems.                                                           *)

LEMMA SyncInvariant == SyncSpec => []SyncInv
<1>1. SyncInit => SyncInv
  BY SyncStart
<1>2. SyncInv /\ [SyncNext]_syncVars => SyncInv'
  BY SyncStay
<1>3. QED
  BY <1>1, <1>2, PTL DEF SyncSpec

\* What the parser has made of the lines keeps its type, and so does the editor.
THEOREM ParserTypesCorrect == SyncSpec => []SyncTypeOK
<1>1. SyncInv => SyncTypeOK
  BY DEF SyncInv
<1>2. QED
  BY <1>1, SyncInvariant, PTL

(* Whatever the data, a click on a record that is alone at its height      *)
(* leads to its line, and to its file if only one path of the project ends *)
(* in its name; and a lower click never leads to a higher record. The      *)
(* cursor gets to the place of the last click, unless the text of the file *)
(* was not there when the timer ran off. The code: findSourceFromClick and *)
(* handlePDFDoubleClick.                                                   *)
THEOREM ClicksFindTheirSource == SyncSpec => []ClickFindsSource
<1>1. SyncInv => ClickFindsSource
  <2> SUFFICES ASSUME SyncInv PROVE ClickFindsSource
    OBVIOUS
  <2> DEFINE records == parser.records
             Of(pg) == {r \in ToSet(records) : r.page = pg}
             Alone(r) == \A q \in Of(r.page) : q.v = r.v => q = r
             IsOn(y, r) == \E q, s \in Of(r.page) :
               /\ \A p \in Of(r.page) : q.v <= p.v /\ p.v <= s.v
               /\ (r.v - q.v) * Grid = y * (s.v - q.v)
             EndIn(name) == {i \in DOMAIN Listed : name \in EndsIn[Listed[i]]}
  <2>1. records \in SourceRecords /\ Bounded(records)
    BY DEF SyncInv, SyncTypeOK, SourceRecords
  <2>2. \A y \in 0..Grid : y \in Int /\ ClampToPage(y) = y
    BY DEF ClampToPage
  <2>3. ASSUME NEW r \in ToSet(records), NEW y \in 0..Grid, Alone(r), IsOn(y, r)
        PROVE  /\ PlaceOf(r.page, y).line = r.line
               /\ \A i \in EndIn(r.file) : EndIn(r.file) = {i} => PlaceOf(r.page, y).file = Listed[i]
    <3>1. PICK i \in DOMAIN records : r = records[i]
      BY <2>3 DEF ToSet
    <3>2. i \in Own(records, r.page)
      BY <3>1 DEF Own
    <3> DEFINE low == PageStats(records, r.page).vMin
               high == PageStats(records, r.page).vMax
    <3>3. (records[i].v - low) * Grid = y * (high - low)
      <4>1. PICK q \in Of(r.page), s \in Of(r.page) :
              /\ \A p \in Of(r.page) : q.v <= p.v /\ p.v <= s.v
              /\ (r.v - q.v) * Grid = y * (s.v - q.v)
        BY <2>3
      <4>2. /\ low \in Int /\ high \in Int
            /\ \A j \in Own(records, r.page) : low <= records[j].v /\ records[j].v <= high
            /\ \E j \in Own(records, r.page) : records[j].v = low
            /\ \E j \in Own(records, r.page) : records[j].v = high
        BY <2>1, <3>2, StatsType
      <4>3. /\ \A p \in Of(r.page) : \E j \in Own(records, r.page) : p = records[j]
            /\ \A j \in Own(records, r.page) : records[j] \in Of(r.page) /\ records[j].v \in Int
        BY <2>1, RecordType DEF Own, ToSet
      <4> HIDE DEF low, high, Of
      <4>4. q.v = low /\ s.v = high
        <5>1. PICK j \in Own(records, r.page) : records[j].v = low
          BY <4>2
        <5>2. PICK k \in Own(records, r.page) : records[k].v = high
          BY <4>2
        <5>3. q.v \in Int /\ s.v \in Int /\ low <= q.v /\ s.v <= high
          BY <4>2, <4>3
        <5>4. q.v <= low /\ high <= s.v
          BY <4>1, <4>3, <5>1, <5>2
        <5>5. QED
          BY <4>2, <5>3, <5>4
      <4>5. QED
        BY <3>1, <4>1, <4>4
    <3>4. PICK k \in Own(records, r.page) :
            FindSource(records, r.page, y) = records[k] /\ records[k].v = r.v
      <4> HIDE DEF low, high
      <4>1. low = PageStats(records, r.page).vMin /\ high = PageStats(records, r.page).vMax
        BY DEF low, high
      <4>2. QED
        BY <2>1, <2>2, <3>1, <3>2, <3>3, <4>1, ExactClick
    <3>5. records[k] \in Of(r.page)
      BY DEF Own, ToSet
    <3>6. records[k] = r
      BY <2>3, <3>4, <3>5
    <3>7. SourceOf(r.page, y) = r
      BY <2>2, <3>4, <3>6 DEF SourceOf
    <3>8. PlaceOf(r.page, y).line = r.line /\ PlaceOf(r.page, y).file = TargetFile(r.file)
      BY <3>7 DEF PlaceOf
    <3>9. QED
      BY <3>8, TargetFits
  <2>4. ASSUME NEW pg \in SyncPages, Of(pg) # {}, NEW y \in (-1)..Grid
        PROVE  SourceOf(pg, y).v <= SourceOf(pg, y + 1).v
    <3>1. Own(records, pg) # {}
      BY <2>4 DEF Own, ToSet
    <3>2. \A z \in Int : SourceOf(pg, z).v = FindSource(records, pg, ClampToPage(z)).v
      BY DEF SourceOf
    <3>3. y \in Int /\ y + 1 \in Int
      OBVIOUS
    <3>4. CASE ClampToPage(y + 1) = ClampToPage(y)
      <4>1. ClampToPage(y) \in Int
        BY <3>3 DEF ClampToPage
      <4>2. FindSource(records, pg, ClampToPage(y)).v \in Int
        <5>1. PICK k \in Own(records, pg) :
                FindSource(records, pg, ClampToPage(y)) = records[k]
          BY <2>1, <3>1, <4>1, FoundIsNearest
        <5>2. k \in DOMAIN records
          BY DEF Own
        <5>3. records[k].v \in Int
          BY <2>1, <5>2, RecordType
        <5>4. QED
          BY <5>1, <5>3
      <4>3. QED
        BY <3>2, <3>3, <3>4, <4>2
    <3>5. CASE ClampToPage(y) = y /\ ClampToPage(y + 1) = y + 1
      BY <2>1, <3>1, <3>2, <3>3, <3>5, LowerClick
    <3>6. ClampToPage(y + 1) = ClampToPage(y) \/ (ClampToPage(y) = y /\ ClampToPage(y + 1) = y + 1)
      BY <2>4, <3>3 DEF ClampToPage
    <3>7. QED
      BY <3>4, <3>5, <3>6
  <2>5. Arrived(pdfEditor)
    BY JumpArrives DEF SyncInv
  <2>6. QED
    BY <2>3, <2>4, <2>5 DEF ClickFindsSource
<1>2. QED
  BY <1>1, SyncInvariant, PTL

HIDE SourceMapAssumption
---------------------------------------------------------------------------
(* Lines picked from a text.                                               *)

LEMMA RankIsFirst ==
  ASSUME NEW m \in Nat, NEW A \in SUBSET (1..m), NEW i \in Nat
  PROVE  Cardinality({j \in A : j <= i}) = First(A, i)
<1>1. {j \in A : j <= i} = A \cap (1..i)
  <2>1. ASSUME NEW j \in A PROVE j <= i <=> j \in 1..i
    <3>1. j \in 1..m
      OBVIOUS
    <3>2. QED
      BY <3>1
  <2>2. QED
    BY <2>1
<1>2. QED
  BY <1>1 DEF First

LEMMA SubsetOfRange ==
  ASSUME NEW m \in Nat, NEW A \in SUBSET (1..m)
  PROVE  /\ IsFiniteSet(A) /\ Cardinality(A) \in Nat /\ First(A, m) = Cardinality(A)
         /\ Cardinality(A) <= m
<1>1. IsFiniteSet(1..m) /\ Cardinality(1..m) = m
  BY FS_Interval
<1>2. IsFiniteSet(A) /\ Cardinality(A) <= m
  BY <1>1, FS_Subset
<1>3. A \cap (1..m) = A
  OBVIOUS
<1>4. QED
  BY <1>2, <1>3, FS_CardinalityType DEF First

\* Each number of a set has a place of its own, and each place has a number.
LEMMA NthExists ==
  ASSUME NEW m \in Nat, NEW A \in SUBSET (1..m), NEW k \in 1..Cardinality(A)
  PROVE  \E i \in A : First(A, i) = k
<1> DEFINE S == {i \in 0..m : First(A, i) >= k}
<1>1. Cardinality(A) \in Nat /\ First(A, m) = Cardinality(A)
  BY SubsetOfRange
<1>2. k \in Nat /\ k >= 1 /\ k <= Cardinality(A)
  BY <1>1
<1>3. m \in S
  BY <1>1, <1>2
<1>4. S \in SUBSET Nat
  OBVIOUS
<1>5. PICK i \in S : \A j \in S : i <= j
  <2> HIDE DEF S
  <2>1. QED
    BY <1>3, <1>4, MinOfNaturals
<1>6. i # 0
  <2>1. First(A, 0) = 0
    BY FirstType
  <2>2. QED
    BY <1>2, <1>5, <2>1
<1>7. i - 1 \in Nat /\ i - 1 \in 0..m /\ (i - 1) + 1 = i /\ ~(i <= i - 1)
  BY <1>5, <1>6
<1>8. i - 1 \notin S
  BY <1>5, <1>7
<1>9. First(A, i) = First(A, i - 1) + IF i \in A THEN 1 ELSE 0
  BY <1>7, FirstStep
<1>10. First(A, i - 1) \in Nat /\ First(A, i) >= k
  BY <1>5, <1>7, FirstType
<1>11. First(A, i - 1) < k
  BY <1>2, <1>7, <1>8, <1>10
<1>12. i \in A /\ First(A, i) = k
  <2> DEFINE x == First(A, i - 1)  y == First(A, i)
  <2>1. x \in Nat /\ x < k /\ y >= k /\ y = x + IF i \in A THEN 1 ELSE 0
    BY <1>9, <1>10, <1>11
  <2> HIDE DEF x, y
  <2>2. i \in A /\ y = k
    BY <1>2, <2>1
  <2>3. QED
    BY <2>2 DEF y
<1>13. QED
  BY <1>12

LEMMA NthIsBelow ==
  ASSUME NEW m \in Nat, NEW A \in SUBSET (1..m), NEW i \in A
  PROVE  /\ First(A, i) \in 1..Cardinality(A)
         /\ \A j \in A : i < j => First(A, i) < First(A, j)
<1>1. i \in 1..m /\ i - 1 \in Nat /\ (i - 1) + 1 = i /\ i \in Nat
  OBVIOUS
<1>2. First(A, i) = First(A, i - 1) + 1 /\ First(A, i - 1) \in Nat /\ First(A, i) \in Nat
  <2>1. First(A, (i - 1) + 1) = First(A, i - 1) + IF (i - 1) + 1 \in A THEN 1 ELSE 0
    BY <1>1, FirstStep
  <2>2. First(A, i - 1) \in Nat /\ First(A, i) \in Nat
    BY <1>1, FirstType
  <2>3. QED
    BY <1>1, <2>1, <2>2
<1>3. First(A, i) <= First(A, m) /\ First(A, m) = Cardinality(A) /\ Cardinality(A) \in Nat
  <2>1. i \in 0..m
    BY <1>1
  <2>2. First(A, i) <= First(A, m)
    BY <2>1, FirstGrows
  <2>3. First(A, m) = Cardinality(A) /\ Cardinality(A) \in Nat
    BY SubsetOfRange
  <2>4. QED
    BY <2>2, <2>3
<1>4. ASSUME NEW j \in A, i < j PROVE First(A, i) < First(A, j)
  <2>1. j \in 1..m /\ j - 1 \in Nat /\ (j - 1) + 1 = j /\ i \in 0..(j - 1)
    BY <1>1, <1>4
  <2>2. First(A, j) = First(A, j - 1) + 1
    BY <2>1, FirstStep
  <2>3. First(A, i) <= First(A, j - 1) /\ First(A, j - 1) \in Nat
    BY <2>1, FirstGrows, FirstType
  <2>4. QED
    BY <1>2, <2>2, <2>3
<1>5. First(A, i) \in 1..Cardinality(A)
  <2> DEFINE x == First(A, i - 1)  y == First(A, i)  z == Cardinality(A)
  <2>1. x \in Nat /\ y = x + 1 /\ y <= z /\ z \in Nat
    BY <1>2, <1>3
  <2> HIDE DEF x, y, z
  <2>2. y \in 1..z
    BY <2>1
  <2>3. QED
    BY <2>2 DEF y, z
<1>6. QED
  BY <1>4, <1>5

LEMMA PickNth ==
  ASSUME NEW T, NEW t \in Seq(T), NEW A \in SUBSET (1..Len(t))
  PROVE  /\ Pick(t, A) \in Seq(T) /\ Len(Pick(t, A)) = Cardinality(A)
         /\ \A i \in A : Pick(t, A)[First(A, i)] = t[i]
<1> DEFINE m == Len(t)
           Nth(k) == CHOOSE i \in A : Cardinality({j \in A : j <= i}) = k
           c == Cardinality(A)
<1>1. m \in Nat /\ c \in Nat /\ \A i \in A : i \in 1..m /\ i \in Nat /\ t[i] \in T
  BY SubsetOfRange
<1>2. \A i \in A : Cardinality({j \in A : j <= i}) = First(A, i)
  BY <1>1, RankIsFirst
<1>3. ASSUME NEW k \in 1..c PROVE Nth(k) \in A /\ First(A, Nth(k)) = k
  <2>1. \E i \in A : First(A, i) = k
    BY <1>1, NthExists
  <2>2. \E i \in A : Cardinality({j \in A : j <= i}) = k
    BY <1>2, <2>1
  <2>3. Nth(k) \in A /\ Cardinality({j \in A : j <= Nth(k)}) = k
    BY <2>2
  <2>4. QED
    BY <1>2, <2>3
<1>4. Pick(t, A) = [k \in 1..c |-> t[Nth(k)]]
  BY DEF Pick
<1> HIDE DEF Nth
<1>5. [k \in 1..c |-> t[Nth(k)]] \in Seq(T) /\ Len([k \in 1..c |-> t[Nth(k)]]) = c
  <2>1. \A k \in 1..c : t[Nth(k)] \in T
    BY <1>1, <1>3
  <2> DEFINE s == [k \in 1..c |-> t[Nth(k)]]
  <2>2. s \in [1..c -> T] /\ DOMAIN s = 1..c
    BY <2>1
  <2> HIDE DEF s, c
  <2>3. s \in Seq(T)
    BY <1>1, <2>2, SeqDef
  <2>4. Len(s) = c
    BY <1>1, <2>2, <2>3, LenProperties
  <2>5. QED
    BY <2>3, <2>4 DEF s, c
<1>6. ASSUME NEW i \in A PROVE Pick(t, A)[First(A, i)] = t[i]
  <2> DEFINE k == First(A, i)
  <2>1. k \in 1..c
    BY <1>1, NthIsBelow
  <2>2. Nth(k) \in A /\ First(A, Nth(k)) = k
    BY <1>3, <2>1
  <2>3. Nth(k) = i
    <3>1. /\ \A j \in A : i < j => First(A, i) < First(A, j)
          /\ \A j \in A : Nth(k) < j => First(A, Nth(k)) < First(A, j)
      BY <1>1, <2>2, NthIsBelow
    <3>2. First(A, i) = k /\ First(A, Nth(k)) = k /\ ~(k < k)
      <4>1. k \in Nat
        BY <2>1
      <4> HIDE DEF k
      <4>2. ~(k < k)
        BY <4>1
      <4>3. QED
        BY <2>2, <4>2 DEF k
    <3> HIDE DEF k
    <3>3. ~(i < Nth(k)) /\ ~(Nth(k) < i)
      <4>1. i < Nth(k) => k < k
        BY <2>2, <3>1, <3>2
      <4>2. Nth(k) < i => k < k
        BY <2>2, <3>1, <3>2
      <4>3. QED
        BY <3>2, <4>1, <4>2
    <3>4. i \in Nat /\ Nth(k) \in Nat
      BY <1>1, <2>2
    <3>5. QED
      BY <3>3, <3>4
  <2>4. QED
    BY <1>4, <2>1, <2>3
<1>7. QED
  BY <1>4, <1>5, <1>6

\* The last line that is picked.
LEMMA PickLast ==
  ASSUME NEW T, NEW t \in Seq(T), NEW A \in SUBSET (1..Len(t)), NEW i \in A, \A j \in A : j <= i
  PROVE  /\ Pick(t, A) = Append(Pick(t, A \ {i}), t[i])
         /\ Cardinality(A) = Cardinality(A \ {i}) + 1
<1> DEFINE m == Len(t)
           B == A \ {i}
           P == Pick(t, A)
           Q == Pick(t, B)
           c == Cardinality(B)
<1>1. m \in Nat /\ B \in SUBSET (1..m) /\ i \in 1..m /\ i \notin B /\ A = B \cup {i}
  OBVIOUS
<1>2. IsFiniteSet(B) /\ c \in Nat /\ Cardinality(A) = c + 1
  <2>1. IsFiniteSet(B) /\ c \in Nat
    BY <1>1, SubsetOfRange
  <2> HIDE DEF B
  <2>2. Cardinality(B \cup {i}) = c + 1
    BY <1>1, <2>1, FS_AddElement
  <2>3. QED
    BY <1>1, <2>1, <2>2
<1>3. ASSUME NEW j \in B PROVE j \in A /\ First(A, j) = First(B, j)
  <2>1. j \in 1..m /\ j <= i /\ j # i
    BY <1>1
  <2>2. i \notin 1..j
    BY <1>1, <2>1
  <2>3. A \cap (1..j) = B \cap (1..j)
    BY <2>2
  <2>4. QED
    BY <2>3 DEF First
<1>4. First(A, i) = c + 1
  <2>1. \A j \in A : j \in 1..i
    BY <1>1
  <2>2. A \cap (1..i) = A
    BY <2>1
  <2>3. QED
    BY <1>2, <2>2 DEF First
<1>5. /\ P \in Seq(T) /\ Len(P) = c + 1 /\ \A j \in A : P[First(A, j)] = t[j]
      /\ Q \in Seq(T) /\ Len(Q) = c /\ \A j \in B : Q[First(B, j)] = t[j]
  BY <1>1, <1>2, PickNth
<1>6. t[i] \in T
  BY <1>1
<1>7. ASSUME NEW k \in 1..c PROVE P[k] = Q[k]
  <2>1. PICK j \in B : First(B, j) = k
    <3> HIDE DEF B
    <3> QED
      BY <1>1, NthExists
  <2>2. P[First(A, j)] = t[j] /\ Q[First(B, j)] = t[j] /\ First(A, j) = First(B, j)
    BY <1>3, <1>5
  <2>3. QED
    BY <2>1, <2>2
<1>8. P[c + 1] = t[i]
  BY <1>4, <1>5
<1> HIDE DEF P, Q, c
<1>9. P = Append(Q, t[i])
  <2> DEFINE R == Append(Q, t[i])
  <2>1. R \in Seq(T) /\ Len(R) = c + 1 /\ R[c + 1] = t[i] /\ \A k \in 1..c : R[k] = Q[k]
    BY <1>2, <1>5, <1>6
  <2>2. \A k \in 1..(c + 1) : k \in 1..c \/ k = c + 1
    BY <1>2
  <2> HIDE DEF R
  <2>3. \A k \in 1..(c + 1) : P[k] = R[k]
    BY <1>7, <1>8, <2>1, <2>2
  <2>4. P = R
    BY <1>5, <2>1, <2>3, SeqEqual
  <2>5. QED
    BY <2>4 DEF R
<1>10. QED
  BY <1>2, <1>9 DEF P, Q, c

LEMMA RangeSize ==
  ASSUME NEW m \in Nat
  PROVE  IsFiniteSet(1..m) /\ Cardinality(1..m) = m
<1>1. 1 \in Int /\ m \in Int
  OBVIOUS
<1>2. IsFiniteSet(1..m) /\ Cardinality(1..m) = IF 1 > m THEN 0 ELSE m - 1 + 1
  BY <1>1, FS_Interval
<1>3. QED
  BY <1>2

LEMMA PickAll ==
  ASSUME NEW T, NEW t \in Seq(T)
  PROVE  Pick(t, 1..Len(t)) = t
<1> DEFINE m == Len(t)
           A == 1..m
           P == Pick(t, A)
<1>1. m \in Nat /\ A \in SUBSET (1..m)
  OBVIOUS
<1>2. P \in Seq(T) /\ Len(P) = m /\ \A i \in A : P[First(A, i)] = t[i]
  <2>1. Cardinality(A) = m
    BY <1>1, RangeSize
  <2>2. QED
    BY <1>1, <2>1, PickNth
<1>3. ASSUME NEW i \in 1..m PROVE First(A, i) = i
  <2>1. A \cap (1..i) = 1..i /\ i \in Nat
    OBVIOUS
  <2>2. Cardinality(1..i) = i
    BY <2>1, RangeSize
  <2>3. QED
    BY <2>1, <2>2 DEF First
<1>4. \A i \in 1..m : P[i] = t[i]
  BY <1>2, <1>3
<1> HIDE DEF P
<1>5. P = t
  BY <1>2, <1>4, SeqEqual
<1>6. QED
  BY <1>5 DEF P

---------------------------------------------------------------------------
(* The table of computeLineDiff.                                           *)

Row(a, b, i, d) ==
  CHOOSE r : r = [j \in 0..Len(b) |->
    IF i = 0 \/ j = 0 THEN 0
    ELSE IF a[i] = b[j] THEN d[j - 1] + 1
    ELSE Larger(d[j], r[j - 1])]

LEMMA LcsByRows ==
  ASSUME NEW a, NEW b
  PROVE  Lcs(a, b) = CHOOSE f : f = [i \in 0..Len(a) |-> Row(a, b, i, f[i - 1])]
BY DEF Lcs, Row

LEMMA FirstRow ==
  ASSUME NEW a, NEW b, NEW d
  PROVE  Row(a, b, 0, d) = [j \in 0..Len(b) |-> 0]
<1> DEFINE Eq(r) == r = [j \in 0..Len(b) |->
                         IF 0 = 0 \/ j = 0 THEN 0
                         ELSE IF a[0] = b[j] THEN d[j - 1] + 1
                         ELSE Larger(d[j], r[j - 1])]
<1>1. \A r : Eq(r) <=> r = [j \in 0..Len(b) |-> 0]
  OBVIOUS
<1>2. Row(a, b, 0, d) = CHOOSE r : Eq(r)
  BY DEF Row
<1> HIDE DEF Eq
<1>3. QED
  BY <1>1, <1>2

RowBelow(a, b, i, d, r) ==
  /\ r \in [0..Len(b) -> Nat] /\ r[0] = 0
  /\ \A j \in 1..Len(b) : r[j] = IF a[i] = b[j] THEN d[j - 1] + 1 ELSE Larger(d[j], r[j - 1])

LEMMA NextRow ==
  ASSUME NEW a, NEW b, Len(b) \in Nat, NEW i \in Nat \ {0}, NEW d \in [0..Len(b) -> Nat]
  PROVE  RowBelow(a, b, i, d, Row(a, b, i, d))
<1> DEFINE n == Len(b)
           Cell(j, left) == IF a[i] = b[j] THEN d[j - 1] + 1 ELSE Larger(d[j], left)
           Eq(r) == r = [j \in 0..n |-> IF i = 0 \/ j = 0 THEN 0 ELSE Cell(j, r[j - 1])]
           h == [p \in Nat \X (1..n) |-> Cell(p[2], p[1])]
           r == Row(a, b, i, d)
<1>1. Row(a, b, i, d) = CHOOSE q : Eq(q)
  BY DEF Row
<1>2. \A j \in 1..n, left \in Nat : Cell(j, left) \in Nat
  <2> TAKE j \in 1..n, left \in Nat
  <2>1. j \in 0..n /\ j - 1 \in 0..n
    OBVIOUS
  <2>2. d[j - 1] \in Nat /\ d[j] \in Nat
    BY <2>1
  <2>3. QED
    BY <2>2 DEF Larger
<1> HIDE DEF Cell
<1>3. h \in [Nat \X (1..n) -> Nat] /\ \A left \in Nat, j \in 1..n : h[<<left, j>>] = Cell(j, left)
  BY <1>2
<1> HIDE DEF h
<1>4. PICK f \in [0..n -> Nat] : Chains(f, n, 0, h)
  BY <1>3, ChainExists
<1>5. Eq(f)
  <2>1. f = [j \in 0..n |-> IF j = 0 THEN 0 ELSE h[<<f[j - 1], j>>]]
    BY <1>4 DEF Chains
  <2>2. ASSUME NEW j \in 1..n PROVE h[<<f[j - 1], j>>] = Cell(j, f[j - 1])
    <3>1. j - 1 \in 0..n
      OBVIOUS
    <3>2. QED
      BY <1>3, <3>1
  <2>3. \A j \in 0..n : j # 0 => j \in 1..n
    OBVIOUS
  <2> HIDE DEF n
  <2>4. f = [j \in 0..n |-> IF i = 0 \/ j = 0 THEN 0 ELSE Cell(j, f[j - 1])]
    BY <2>1, <2>2, <2>3
  <2>5. QED
    BY <2>4
<1>6. Eq(r)
  <2> HIDE DEF Eq, r
  <2> QED
    BY <1>1, <1>5 DEF r
<1> HIDE DEF r
<1>7. r[0] = 0 /\ DOMAIN r = 0..n /\ \A j \in 1..n : r[j] = Cell(j, r[j - 1])
  <2>1. 0 \in 0..n /\ \A j \in 1..n : j \in 0..n /\ j # 0
    OBVIOUS
  <2>2. r = [j \in 0..n |-> IF i = 0 \/ j = 0 THEN 0 ELSE Cell(j, r[j - 1])]
    BY <1>6
  <2>3. i # 0
    OBVIOUS
  <2> HIDE DEF n, Eq
  <2>4. DOMAIN r = 0..n
    BY <2>2
  <2>5. \A j \in 0..n : r[j] = IF i = 0 \/ j = 0 THEN 0 ELSE Cell(j, r[j - 1])
    BY <2>2
  <2>6. QED
    BY <2>1, <2>3, <2>4, <2>5
<1>8. \A j \in 0..n : r[j] \in Nat
  <2> DEFINE S == {j \in 0..n : r[j] \in Nat}
  <2>1. 0 \in S
    BY <1>7
  <2>2. ASSUME NEW j \in 0..(n - 1), j \in S PROVE j + 1 \in S
    <3>1. j + 1 \in 1..n /\ j + 1 \in 0..n /\ (j + 1) - 1 = j
      OBVIOUS
    <3>2. QED
      BY <1>2, <1>7, <2>2, <3>1
  <2>3. \A j \in 0..n : j \in S
    <3> HIDE DEF S
    <3> QED
      BY <2>1, <2>2, Induct
  <2>4. QED
    BY <2>3
<1>9. r \in [0..n -> Nat]
  BY <1>6, <1>8
<1>10. RowBelow(a, b, i, d, r)
  BY <1>7, <1>9 DEF Cell, RowBelow
<1>11. QED
  BY <1>10 DEF r

Tabled(dp, a, b) ==
  /\ \A i \in 0..Len(a) : dp[i] \in [0..Len(b) -> Nat]
  /\ \A j \in 0..Len(b) : dp[0][j] = 0
  /\ \A i \in 1..Len(a) : dp[i][0] = 0
  /\ \A i \in 1..Len(a), j \in 1..Len(b) :
       dp[i][j] = IF a[i] = b[j] THEN dp[i - 1][j - 1] + 1 ELSE Larger(dp[i - 1][j], dp[i][j - 1])

LEMMA LcsTable ==
  ASSUME NEW a, NEW b, Len(a) \in Nat, Len(b) \in Nat
  PROVE  Tabled(Lcs(a, b), a, b)
<1> DEFINE m == Len(a)
           n == Len(b)
           V == [0..n -> Nat]
           zero == [j \in 0..n |-> 0]
           Eq(f) == f = [i \in 0..m |-> Row(a, b, i, f[i - 1])]
           h == [p \in V \X (1..m) |-> Row(a, b, p[2], p[1])]
           dp == Lcs(a, b)
<1>1. zero \in V
  OBVIOUS
<1>2. \A d \in V, i \in 1..m : Row(a, b, i, d) \in V
  <2> TAKE d \in V, i \in 1..m
  <2>1. i \in Nat \ {0} /\ d \in [0..Len(b) -> Nat]
    OBVIOUS
  <2>2. RowBelow(a, b, i, d, Row(a, b, i, d))
    BY <2>1, NextRow
  <2>3. QED
    BY <2>2 DEF RowBelow
<1>3. h \in [V \X (1..m) -> V] /\ \A d \in V, i \in 1..m : h[<<d, i>>] = Row(a, b, i, d)
  BY <1>2
<1> HIDE DEF h, V
<1>4. PICK f \in [0..m -> V] : Chains(f, m, zero, h)
  BY <1>1, <1>3, ChainExists
<1>5. Eq(f)
  <2>1. f = [i \in 0..m |-> IF i = 0 THEN zero ELSE h[<<f[i - 1], i>>]]
    BY <1>4 DEF Chains
  <2>2. \A d : Row(a, b, 0, d) = zero
    BY FirstRow
  <2>3. ASSUME NEW i \in 0..m
        PROVE  (IF i = 0 THEN zero ELSE h[<<f[i - 1], i>>]) = Row(a, b, i, f[i - 1])
    <3>1. CASE i = 0
      BY <2>2, <3>1
    <3>2. CASE i # 0
      <4>1. i \in 1..m /\ i - 1 \in 0..m
        BY <3>2
      <4>2. f[i - 1] \in V
        BY <4>1
      <4>3. QED
        BY <1>3, <3>2, <4>1, <4>2
    <3>3. QED
      BY <3>1, <3>2
  <2> HIDE DEF m, zero
  <2>4. QED
    BY <2>1, <2>3
<1>6. Eq(dp)
  <2>1. dp = CHOOSE g : Eq(g)
    BY LcsByRows
  <2> HIDE DEF Eq, dp
  <2>2. QED
    BY <1>5, <2>1
<1> HIDE DEF dp
<1>7. \A i \in 0..m : dp[i] = Row(a, b, i, dp[i - 1])
  BY <1>6
<1>8. dp[0] = zero
  <2>1. 0 \in 0..m
    OBVIOUS
  <2>2. QED
    BY <1>7, <2>1, FirstRow
<1> DEFINE S == {i \in 0..m : dp[i] \in V}
<1>9. \A i \in 0..m : dp[i] \in V
  <2>1. 0 \in S
    BY <1>1, <1>8
  <2>2. ASSUME NEW i \in 0..(m - 1), i \in S PROVE i + 1 \in S
    <3>1. i + 1 \in 1..m /\ i + 1 \in 0..m /\ (i + 1) - 1 = i
      OBVIOUS
    <3>2. QED
      BY <1>2, <1>7, <2>2, <3>1
  <2>3. \A i \in 0..m : i \in S
    <3> HIDE DEF S
    <3> QED
      BY <2>1, <2>2, Induct
  <2>4. QED
    BY <2>3
<1>10. ASSUME NEW i \in 1..m
       PROVE  /\ dp[i][0] = 0
              /\ \A j \in 1..n : dp[i][j] = IF a[i] = b[j] THEN dp[i - 1][j - 1] + 1
                                            ELSE Larger(dp[i - 1][j], dp[i][j - 1])
  <2>1. i \in 0..m /\ i - 1 \in 0..m /\ i \in Nat \ {0}
    OBVIOUS
  <2> DEFINE d == dp[i - 1]
             r == dp[i]
  <2>2. d \in [0..Len(b) -> Nat]
    BY <1>9, <2>1 DEF V
  <2>3. r = Row(a, b, i, d)
    BY <1>7, <2>1
  <2> HIDE DEF d, r
  <2>4. r[0] = 0 /\ \A j \in 1..n : r[j] = IF a[i] = b[j] THEN d[j - 1] + 1 ELSE Larger(d[j], r[j - 1])
    <3>1. RowBelow(a, b, i, d, r)
      BY <2>1, <2>2, <2>3, NextRow
    <3>2. QED
      BY <3>1 DEF RowBelow
  <2>5. QED
    BY <2>4 DEF d, r
<1>11. QED
  BY <1>8, <1>9, <1>10 DEF Tabled, V, dp

---------------------------------------------------------------------------
(* No common subsequence of two prefixes is longer than the table says.    *)

Bounds(dp, a, b, i, j) ==
  \A A \in SUBSET (1..i), B \in SUBSET (1..j) :
    Pick(a, A) = Pick(b, B) => Cardinality(A) <= dp[i][j]

LEMMA LongestStep ==
  ASSUME NEW T, NEW a \in Seq(T), NEW b \in Seq(T), NEW dp, Tabled(dp, a, b),
         NEW i \in 1..Len(a), NEW j \in 1..Len(b),
         Bounds(dp, a, b, i - 1, j - 1), Bounds(dp, a, b, i - 1, j), Bounds(dp, a, b, i, j - 1)
  PROVE  Bounds(dp, a, b, i, j)
<1> SUFFICES ASSUME NEW A \in SUBSET (1..i), NEW B \in SUBSET (1..j), Pick(a, A) = Pick(b, B)
             PROVE  Cardinality(A) <= dp[i][j]
  BY DEF Bounds
<1> DEFINE m == Len(a)
           n == Len(b)
<1>1. /\ m \in Nat /\ n \in Nat /\ i \in Nat /\ j \in Nat /\ A \in SUBSET (1..m) /\ B \in SUBSET (1..n)
      /\ i \in 0..m /\ i - 1 \in 0..m /\ j \in 0..n /\ j - 1 \in 0..n
  OBVIOUS
<1>2. Cardinality(A) \in Nat /\ Cardinality(A) = Cardinality(B)
  <2>1. Len(Pick(a, A)) = Cardinality(A)
    BY <1>1, PickNth
  <2>2. Len(Pick(b, B)) = Cardinality(B)
    BY <1>1, PickNth
  <2>3. Cardinality(A) \in Nat
    BY <1>1, SubsetOfRange
  <2>4. QED
    BY <2>1, <2>2, <2>3
<1>3. /\ dp[i][j] \in Nat /\ dp[i - 1][j - 1] \in Nat /\ dp[i - 1][j] \in Nat /\ dp[i][j - 1] \in Nat
      /\ dp[i][j] = IF a[i] = b[j] THEN dp[i - 1][j - 1] + 1 ELSE Larger(dp[i - 1][j], dp[i][j - 1])
  <2>1. dp[i] \in [0..n -> Nat] /\ dp[i - 1] \in [0..n -> Nat]
    BY <1>1 DEF Tabled
  <2> DEFINE d == dp[i - 1]
             r == dp[i]
  <2> HIDE DEF d, r
  <2>2. r[j] \in Nat /\ d[j - 1] \in Nat /\ d[j] \in Nat /\ r[j - 1] \in Nat
    BY <1>1, <2>1 DEF d, r
  <2>3. r[j] = IF a[i] = b[j] THEN d[j - 1] + 1 ELSE Larger(d[j], r[j - 1])
    BY DEF Tabled, d, r
  <2>4. QED
    BY <2>2, <2>3 DEF d, r
<1>4. CASE A = {}
  BY <1>3, <1>4, FS_EmptySet
<1>5. CASE A # {}
  <2>1. B # {}
    <3>1. Cardinality(A) # 0
      BY <1>1, <1>5, FS_EmptySet, SubsetOfRange
    <3>2. QED
      BY <1>2, <3>1, FS_EmptySet
  <2> DEFINE x == Max(A)
             y == Max(B)
  <2>2. x \in A /\ (\A k \in A : k <= x) /\ y \in B /\ (\A k \in B : k <= y)
    <3>1. x \in A /\ \A k \in A : x >= k
      BY <1>1, <1>5, MaxInRange
    <3>2. y \in B /\ \A k \in B : y >= k
      BY <1>1, <2>1, MaxInRange
    <3>3. \A k \in A : k \in Int
      BY <1>1
    <3>4. \A k \in B : k \in Int
      BY <1>1
    <3> HIDE DEF x, y
    <3>5. QED
      BY <3>1, <3>2, <3>3, <3>4
  <2> HIDE DEF x, y
  <2>3. /\ Pick(a, A) = Append(Pick(a, A \ {x}), a[x]) /\ Cardinality(A) = Cardinality(A \ {x}) + 1
        /\ Pick(b, B) = Append(Pick(b, B \ {y}), b[y])
    BY <1>1, <2>2, PickLast
  <2>4. /\ A \ {x} \in SUBSET (1..(i - 1)) /\ B \ {y} \in SUBSET (1..(j - 1))
        /\ x \in 1..i /\ y \in 1..j
    <3>1. ASSUME NEW k \in A \ {x} PROVE k \in 1..(i - 1)
      <4>1. k \in 1..i /\ x \in 1..i /\ k <= x /\ k # x
        BY <2>2
      <4>2. QED
        BY <1>1, <4>1
    <3>2. ASSUME NEW k \in B \ {y} PROVE k \in 1..(j - 1)
      <4>1. k \in 1..j /\ y \in 1..j /\ k <= y /\ k # y
        BY <2>2
      <4>2. QED
        BY <1>1, <4>1
    <3>3. QED
      BY <2>2, <3>1, <3>2
  <2>5. Pick(a, A \ {x}) = Pick(b, B \ {y}) /\ a[x] = b[y]
    <3>1. A \ {x} \in SUBSET (1..m) /\ B \ {y} \in SUBSET (1..n) /\ x \in 1..m /\ y \in 1..n
      BY <1>1, <2>2
    <3>2. Pick(a, A \ {x}) \in Seq(T) /\ Pick(b, B \ {y}) \in Seq(T) /\ a[x] \in T /\ b[y] \in T
      BY <3>1, PickNth
    <3>3. \A s \in Seq(T), t \in Seq(T), e \in T, f \in T :
            Append(s, e) = Append(t, f) => s = t /\ e = f
      <4>1. TAKE s \in Seq(T), t \in Seq(T), e \in T, f \in T
      <4>2. HAVE Append(s, e) = Append(t, f)
      <4>3. /\ Len(Append(s, e)) = Len(s) + 1 /\ Len(Append(t, f)) = Len(t) + 1
            /\ Append(s, e)[Len(s) + 1] = e /\ Append(t, f)[Len(t) + 1] = f
            /\ (\A k \in 1..Len(s) : Append(s, e)[k] = s[k]) /\ \A k \in 1..Len(t) : Append(t, f)[k] = t[k]
        BY AppendProperties
      <4>4. Len(s) = Len(t) /\ Len(s) \in Nat
        BY <4>2, <4>3
      <4>5. e = f /\ \A k \in 1..Len(s) : s[k] = t[k]
        BY <4>2, <4>3, <4>4
      <4>6. s = t
        BY <4>4, <4>5, SeqEqual
      <4>7. QED
        BY <4>5, <4>6
    <3> DEFINE s == Pick(a, A \ {x})  t == Pick(b, B \ {y})
               e == a[x]  f == b[y]
    <3>4. Append(s, e) = Append(t, f)
      BY <2>3
    <3>5. s \in Seq(T) /\ t \in Seq(T) /\ e \in T /\ f \in T
      BY <3>2
    <3> HIDE DEF s, t, e, f
    <3>6. s = t /\ e = f
      BY <3>3, <3>4, <3>5
    <3>7. QED
      BY <3>6 DEF s, t, e, f
  <2>6. CASE a[i] = b[j]
    <3>1. Cardinality(A \ {x}) <= dp[i - 1][j - 1]
      BY <2>4, <2>5 DEF Bounds
    <3>2. Cardinality(A \ {x}) \in Nat
      BY <1>1, SubsetOfRange
    <3> DEFINE c == Cardinality(A \ {x})
    <3> DEFINE d == dp[i - 1][j - 1]
    <3>3. Cardinality(A) = c + 1 /\ c <= d /\ dp[i][j] = d + 1
      BY <1>3, <2>3, <2>6, <3>1
    <3>4. c \in Nat /\ d \in Nat
      BY <1>3, <3>2
    <3> HIDE DEF c, d
    <3>5. c + 1 <= d + 1
      BY <3>3, <3>4
    <3>6. QED
      BY <3>3, <3>5
  <2>7. CASE a[i] # b[j]
    <3>1. dp[i - 1][j] <= dp[i][j] /\ dp[i][j - 1] <= dp[i][j]
      BY <1>3, <2>7 DEF Larger
    <3>2. x # i \/ y # j
      BY <2>5, <2>7
    <3>3. CASE x # i
      <4>1. A \in SUBSET (1..(i - 1))
        <5>1. x \in 1..(i - 1)
          BY <1>1, <2>4, <3>3
        <5>2. QED
          BY <2>4, <5>1
      <4> DEFINE c == Cardinality(A)  d == dp[i - 1][j]  e == dp[i][j]
      <4>2. c <= d
        BY <4>1 DEF Bounds
      <4>3. c \in Nat /\ d \in Nat /\ e \in Nat /\ d <= e
        BY <1>2, <1>3, <3>1
      <4> HIDE DEF c, d, e
      <4>4. c <= e
        BY <4>2, <4>3
      <4>5. QED
        BY <4>4 DEF c, e
    <3>4. CASE y # j
      <4>1. B \in SUBSET (1..(j - 1))
        <5>1. y \in 1..(j - 1)
          BY <1>1, <2>4, <3>4
        <5>2. QED
          BY <2>4, <5>1
      <4> DEFINE c == Cardinality(A)  d == dp[i][j - 1]  e == dp[i][j]
      <4>2. c <= d
        BY <4>1 DEF Bounds
      <4>3. c \in Nat /\ d \in Nat /\ e \in Nat /\ d <= e
        BY <1>2, <1>3, <3>1
      <4> HIDE DEF c, d, e
      <4>4. c <= e
        BY <4>2, <4>3
      <4>5. QED
        BY <4>4 DEF c, e
    <3>5. QED
      BY <3>2, <3>3, <3>4
  <2>8. QED
    BY <2>6, <2>7
<1>6. QED
  BY <1>4, <1>5

\* Induction over a table.
LEMMA TableInduct ==
  ASSUME NEW m \in Nat, NEW n \in Nat, NEW S,
         \A i \in 0..m : <<i, 0>> \in S, \A j \in 0..n : <<0, j>> \in S,
         \A i \in 1..m, j \in 1..n :
           <<i - 1, j - 1>> \in S /\ <<i - 1, j>> \in S /\ <<i, j - 1>> \in S => <<i, j>> \in S
  PROVE  \A i \in 0..m, j \in 0..n : <<i, j>> \in S
<1> DEFINE R == {i \in 0..m : \A j \in 0..n : <<i, j>> \in S}
<1>1. 0 \in R
  OBVIOUS
<1>2. ASSUME NEW i \in 0..(m - 1), i \in R PROVE i + 1 \in R
  <2> DEFINE Q == {j \in 0..n : <<i + 1, j>> \in S}
  <2>1. i + 1 \in 1..m /\ i + 1 \in 0..m /\ (i + 1) - 1 = i
    OBVIOUS
  <2>2. 0 \in Q
    BY <2>1
  <2>3. ASSUME NEW j \in 0..(n - 1), j \in Q PROVE j + 1 \in Q
    <3>1. j + 1 \in 1..n /\ j + 1 \in 0..n /\ (j + 1) - 1 = j /\ j \in 0..n
      OBVIOUS
    <3> DEFINE k == i + 1
               l == j + 1
    <3>2. k \in 1..m /\ l \in 1..n /\ k - 1 = i /\ l - 1 = j
      BY <2>1, <3>1
    <3>3. <<i, j>> \in S /\ <<i, l>> \in S /\ <<k, j>> \in S
      BY <1>2, <2>3, <3>1
    <3> HIDE DEF k, l
    <3>4. <<k - 1, l - 1>> \in S /\ <<k - 1, l>> \in S /\ <<k, l - 1>> \in S
      BY <3>2, <3>3
    <3>5. <<k, l>> \in S
      BY <3>2, <3>4
    <3>6. QED
      BY <3>1, <3>5 DEF k, l
  <2>4. \A j \in 0..n : j \in Q
    <3> HIDE DEF Q
    <3> QED
      BY <2>2, <2>3, Induct
  <2>5. QED
    BY <2>1, <2>4
<1>3. \A i \in 0..m : i \in R
  <2> HIDE DEF R
  <2> QED
    BY <1>1, <1>2, Induct
<1>4. QED
  BY <1>3

LEMMA CommonIsBounded ==
  ASSUME NEW T, NEW a \in Seq(T), NEW b \in Seq(T), NEW dp, Tabled(dp, a, b)
  PROVE  Bounds(dp, a, b, Len(a), Len(b))
<1> DEFINE m == Len(a)
           n == Len(b)
           S == {p \in (0..m) \X (0..n) : Bounds(dp, a, b, p[1], p[2])}
<1>1. m \in Nat /\ n \in Nat
  OBVIOUS
<1>2. ASSUME NEW i \in 0..m PROVE <<i, 0>> \in S
  <2>1. dp[i][0] = 0
    <3>1. i = 0 \/ i \in 1..m
      OBVIOUS
    <3>2. 0 \in 0..n
      BY <1>1
    <3>3. QED
      BY <3>1, <3>2 DEF Tabled
  <2>2. ASSUME NEW A \in SUBSET (1..i), NEW B \in SUBSET (1..0), Pick(a, A) = Pick(b, B)
        PROVE  Cardinality(A) <= dp[i][0]
    <3>1. B = {} /\ A \in SUBSET (1..m) /\ B \in SUBSET (1..n)
      OBVIOUS
    <3>2. Cardinality(A) = Cardinality(B)
      <4>1. Len(Pick(a, A)) = Cardinality(A)
        BY <3>1, PickNth
      <4>2. Len(Pick(b, B)) = Cardinality(B)
        BY <3>1, PickNth
      <4>3. QED
        BY <2>2, <4>1, <4>2
    <3>3. QED
      BY <2>1, <3>1, <3>2, FS_EmptySet
  <2>3. Bounds(dp, a, b, i, 0)
    BY <2>2 DEF Bounds
  <2>4. <<i, 0>> \in (0..m) \X (0..n)
    BY <1>1
  <2>5. QED
    BY <2>3, <2>4
<1>3. ASSUME NEW j \in 0..n PROVE <<0, j>> \in S
  <2>1. dp[0][j] = 0
    BY DEF Tabled
  <2>2. ASSUME NEW A \in SUBSET (1..0), NEW B \in SUBSET (1..j), Pick(a, A) = Pick(b, B)
        PROVE  Cardinality(A) <= dp[0][j]
    <3>1. A = {}
      OBVIOUS
    <3>2. QED
      BY <2>1, <3>1, FS_EmptySet
  <2>3. Bounds(dp, a, b, 0, j)
    BY <2>2 DEF Bounds
  <2>4. <<0, j>> \in (0..m) \X (0..n)
    BY <1>1
  <2>5. QED
    BY <2>3, <2>4
<1>4. ASSUME NEW i \in 1..m, NEW j \in 1..n,
             <<i - 1, j - 1>> \in S, <<i - 1, j>> \in S, <<i, j - 1>> \in S
      PROVE  <<i, j>> \in S
  <2>1. /\ Bounds(dp, a, b, i - 1, j - 1) /\ Bounds(dp, a, b, i - 1, j) /\ Bounds(dp, a, b, i, j - 1)
    BY <1>4
  <2>2. Bounds(dp, a, b, i, j)
    BY <2>1, LongestStep
  <2>3. QED
    BY <2>2
<1>5. <<m, n>> \in S
  <2> HIDE DEF S
  <2>1. \A i \in 0..m, j \in 0..n : <<i, j>> \in S
    BY <1>1, <1>2, <1>3, <1>4, TableInduct
  <2>2. QED
    BY <1>1, <2>1
<1>6. QED
  BY <1>5

---------------------------------------------------------------------------
(* The lines that are found on the way back through the table.             *)

\* A function that steps from one number to the next is the only one.
LEMMA ChainIsOnlyOne ==
  ASSUME NEW n \in Nat, NEW base, NEW h, NEW f, NEW g, Chains(f, n, base, h), Chains(g, n, base, h)
  PROVE  f = g
<1> DEFINE S == {k \in 0..n : f[k] = g[k]}
<1>1. /\ f = [i \in 0..n |-> IF i = 0 THEN base ELSE h[<<f[i - 1], i>>]]
      /\ g = [i \in 0..n |-> IF i = 0 THEN base ELSE h[<<g[i - 1], i>>]]
  BY DEF Chains
<1>2. 0 \in S
  BY <1>1
<1>3. ASSUME NEW k \in 0..(n - 1), k \in S PROVE k + 1 \in S
  <2>1. k + 1 \in 0..n /\ k + 1 # 0 /\ (k + 1) - 1 = k /\ f[k] = g[k]
    BY <1>3
  <2>2. f[k + 1] = h[<<f[k], k + 1>>] /\ g[k + 1] = h[<<g[k], k + 1>>]
    BY <1>1, <2>1
  <2>3. QED
    BY <2>1, <2>2
<1>4. \A k \in 0..n : f[k] = g[k]
  <2>1. \A k \in 0..n : k \in S
    <3> HIDE DEF S
    <3> QED
      BY <1>2, <1>3, Induct
  <2>2. QED
    BY <2>1
<1>5. /\ f = [i \in 0..n |-> f[i]] /\ g = [i \in 0..n |-> g[i]]
  BY <1>1
<1>6. QED
  BY <1>4, <1>5

SteppedBy(r, n, V, base, h) ==
  /\ r = [j \in 0..n |-> r[j]] /\ r[0] = base
  /\ \A j \in 1..n : r[j - 1] \in V => r[j] = h[<<r[j - 1], j>>]

LEMMA StepsAreChain ==
  ASSUME NEW n \in Nat, NEW V, NEW base \in V, NEW h \in [V \X (1..n) -> V],
         NEW r, SteppedBy(r, n, V, base, h)
  PROVE  Chains(r, n, base, h) /\ r \in [0..n -> V]
<1> USE DEF SteppedBy
<1> DEFINE S == {j \in 0..n : r[j] \in V}
<1>1. 0 \in S
  OBVIOUS
<1>2. ASSUME NEW k \in 0..(n - 1), k \in S PROVE k + 1 \in S
  <2>1. k + 1 \in 1..n /\ k + 1 \in 0..n /\ (k + 1) - 1 = k /\ r[k] \in V
    BY <1>2
  <2>2. r[k + 1] = h[<<r[k], k + 1>>]
    BY <2>1
  <2>3. QED
    BY <2>1, <2>2
<1>3. \A k \in 0..n : r[k] \in V
  <2>1. \A k \in 0..n : k \in S
    <3> HIDE DEF S
    <3> QED
      BY <1>1, <1>2, Induct
  <2>2. QED
    BY <2>1
<1>4. \A j \in 0..n : r[j] = IF j = 0 THEN base ELSE h[<<r[j - 1], j>>]
  <2> TAKE j \in 0..n
  <2>1. CASE j = 0
    BY <2>1
  <2>2. CASE j # 0
    <3>1. j \in 1..n /\ j - 1 \in 0..n
      BY <2>2
    <3>2. QED
      BY <1>3, <2>2, <3>1
  <2>3. QED
    BY <2>1, <2>2
<1>5. QED
  BY <1>3, <1>4 DEF Chains

RawLines ==
  [kind : {"ctx"}, oldLine : Nat, newLine : Nat, text : Line]
    \cup [kind : {"add"}, newLine : Nat, text : Line] \cup [kind : {"del"}, oldLine : Nat, text : Line]

LEMMA RawLineType ==
  ASSUME NEW i \in Nat, NEW j \in Nat, NEW t \in Line
  PROVE  Ctx(i, j, t) \in RawLines /\ Add(j, t) \in RawLines /\ Del(i, t) \in RawLines
BY DEF RawLines, Ctx, Add, Del

OpsRow(a, b, dp, i, o) ==
  CHOOSE r : r = [j \in 0..Len(b) |->
    IF i = 0 /\ j = 0 THEN <<>>
    ELSE IF i > 0 /\ j > 0 /\ a[i] = b[j] THEN Append(o[j - 1], Ctx(i, j, a[i]))
    ELSE IF j > 0 /\ (i = 0 \/ dp[i][j - 1] >= dp[i - 1][j]) THEN Append(r[j - 1], Add(j, b[j]))
    ELSE Append(o[j], Del(i, a[i]))]

LEMMA BacktrackByRows ==
  ASSUME NEW a, NEW b
  PROVE  Backtrack(a, b) =
           (CHOOSE f : f = [i \in 0..Len(a) |-> OpsRow(a, b, Lcs(a, b), i, f[i - 1])])[Len(a)][Len(b)]
BY DEF Backtrack, OpsRow

\* Behind the first row, a line is found from the row above and from the left.
OpsBase(a, i, o) == IF i = 0 THEN <<>> ELSE Append(o[0], Del(i, a[i]))
OpsCell(a, b, dp, i, o, j, left) ==
  IF i > 0 /\ a[i] = b[j] THEN Append(o[j - 1], Ctx(i, j, a[i]))
  ELSE IF i = 0 \/ dp[i][j - 1] >= dp[i - 1][j] THEN Append(left, Add(j, b[j]))
  ELSE Append(o[j], Del(i, a[i]))

LEMMA OpsCellType ==
  ASSUME NEW a \in Seq(Line), NEW b \in Seq(Line), NEW dp, NEW i \in 0..Len(a), NEW o,
         i = 0 \/ o \in [0..Len(b) -> Seq(RawLines)]
  PROVE  /\ OpsBase(a, i, o) \in Seq(RawLines)
         /\ \A j \in 1..Len(b), left \in Seq(RawLines) :
              OpsCell(a, b, dp, i, o, j, left) \in Seq(RawLines)
<1> DEFINE m == Len(a)
           n == Len(b)
<1>1. m \in Nat /\ n \in Nat /\ i \in Nat /\ (i # 0 => i > 0 /\ i \in 1..m /\ a[i] \in Line)
  OBVIOUS
<1>2. i # 0 => o[0] \in Seq(RawLines) /\ Del(i, a[i]) \in RawLines
  <2>1. 0 \in 0..n
    BY <1>1
  <2>2. QED
    BY <1>1, <2>1, RawLineType
<1>3. OpsBase(a, i, o) \in Seq(RawLines)
  BY <1>2, AppendProperties DEF OpsBase
<1>4. ASSUME NEW j \in 1..n, NEW left \in Seq(RawLines)
      PROVE  OpsCell(a, b, dp, i, o, j, left) \in Seq(RawLines)
  <2>1. j \in Nat /\ j - 1 \in 0..n /\ j \in 0..n /\ b[j] \in Line
    OBVIOUS
  <2>2. Add(j, b[j]) \in RawLines
    BY <2>1, RawLineType
  <2>3. i # 0 => /\ o[j - 1] \in Seq(RawLines) /\ o[j] \in Seq(RawLines)
                 /\ Ctx(i, j, a[i]) \in RawLines /\ Del(i, a[i]) \in RawLines
    BY <1>1, <2>1, RawLineType
  <2>4. \A s \in Seq(RawLines), l \in RawLines : Append(s, l) \in Seq(RawLines)
    BY AppendProperties
  <2> HIDE DEF n, m
  <2>5. QED
    BY <1>1, <2>2, <2>3, <2>4 DEF OpsCell
<1>5. QED
  BY <1>3, <1>4

CellsOf(a, b, dp, i, o) ==
  [p \in Seq(RawLines) \X (1..Len(b)) |-> OpsCell(a, b, dp, i, o, p[2], p[1])]
OpsHere(a, b, dp, i, o, r) ==
  /\ r \in [0..Len(b) -> Seq(RawLines)] /\ r[0] = OpsBase(a, i, o)
  /\ \A j \in 1..Len(b) : r[j] = OpsCell(a, b, dp, i, o, j, r[j - 1])

LEMMA OpsRowSteps ==
  ASSUME NEW a \in Seq(Line), NEW b \in Seq(Line), NEW dp, NEW i \in 0..Len(a), NEW o,
         i = 0 \/ o \in [0..Len(b) -> Seq(RawLines)]
  PROVE  /\ OpsHere(a, b, dp, i, o, OpsRow(a, b, dp, i, o))
         /\ Chains(OpsRow(a, b, dp, i, o), Len(b), OpsBase(a, i, o), CellsOf(a, b, dp, i, o))
<1> DEFINE n == Len(b)
           V == Seq(RawLines)
           base == OpsBase(a, i, o)
           Cell(j, left) == OpsCell(a, b, dp, i, o, j, left)
           Eq(q) == q = [j \in 0..n |->
             IF i = 0 /\ j = 0 THEN <<>>
             ELSE IF i > 0 /\ j > 0 /\ a[i] = b[j] THEN Append(o[j - 1], Ctx(i, j, a[i]))
             ELSE IF j > 0 /\ (i = 0 \/ dp[i][j - 1] >= dp[i - 1][j]) THEN Append(q[j - 1], Add(j, b[j]))
             ELSE Append(o[j], Del(i, a[i]))]
           Steps(q) == q = [j \in 0..n |-> IF j = 0 THEN base ELSE Cell(j, q[j - 1])]
           r == OpsRow(a, b, dp, i, o)
           h == CellsOf(a, b, dp, i, o)
<1>1. n \in Nat /\ i \in Nat
  OBVIOUS
<1>2. \A q : Eq(q) <=> Steps(q)
  <2> TAKE q
  <2>1. ASSUME NEW j \in 0..n
        PROVE  (IF i = 0 /\ j = 0 THEN <<>>
                ELSE IF i > 0 /\ j > 0 /\ a[i] = b[j] THEN Append(o[j - 1], Ctx(i, j, a[i]))
                ELSE IF j > 0 /\ (i = 0 \/ dp[i][j - 1] >= dp[i - 1][j]) THEN Append(q[j - 1], Add(j, b[j]))
                ELSE Append(o[j], Del(i, a[i])))
               = (IF j = 0 THEN base ELSE Cell(j, q[j - 1]))
    <3>1. CASE j = 0
      <4>1. ~(j > 0) /\ (i = 0 \/ i > 0)
        BY <1>1, <3>1
      <4>2. QED
        BY <3>1, <4>1 DEF OpsBase
    <3>2. CASE j # 0
      <4>1. j > 0 /\ ~(i = 0 /\ j = 0)
        BY <3>2
      <4>2. QED
        BY <3>2, <4>1 DEF OpsCell
    <3>3. QED
      BY <3>1, <3>2
  <2> HIDE DEF base, Cell, n
  <2>2. QED
    BY <2>1
<1>3. r = CHOOSE q : Eq(q)
  BY DEF OpsRow
<1> HIDE DEF Eq, r
<1>4. base \in V /\ \A j \in 1..n, left \in V : Cell(j, left) \in V
  BY OpsCellType
<1> HIDE DEF Cell, base
<1>5. /\ h \in [V \X (1..n) -> V] /\ \A left \in V, j \in 1..n : h[<<left, j>>] = Cell(j, left)
  <2>1. h = [p \in V \X (1..n) |-> Cell(p[2], p[1])]
    BY DEF Cell, CellsOf
  <2> HIDE DEF V, n, h
  <2>2. \A p \in V \X (1..n) : p[1] \in V /\ p[2] \in 1..n
    OBVIOUS
  <2>3. \A p \in V \X (1..n) : Cell(p[2], p[1]) \in V
    BY <1>4, <2>2
  <2>4. h \in [V \X (1..n) -> V]
    BY <2>1, <2>3
  <2>5. ASSUME NEW left \in V, NEW j \in 1..n PROVE h[<<left, j>>] = Cell(j, left)
    <3>1. <<left, j>> \in V \X (1..n) /\ <<left, j>>[1] = left /\ <<left, j>>[2] = j
      OBVIOUS
    <3>2. QED
      BY <2>1, <3>1
  <2>6. QED
    BY <2>4, <2>5
<1> HIDE DEF V, n, h
<1>6. PICK f \in [0..n -> V] : Chains(f, n, base, h)
  BY <1>1, <1>4, <1>5, ChainExists
<1>7. Steps(f)
  <2>1. f = [j \in 0..n |-> IF j = 0 THEN base ELSE h[<<f[j - 1], j>>]]
    BY <1>6 DEF Chains
  <2>2. ASSUME NEW j \in 0..n, j # 0 PROVE h[<<f[j - 1], j>>] = Cell(j, f[j - 1])
    <3>1. j \in 1..n /\ j - 1 \in 0..n
      BY <1>1, <2>2
    <3>2. f[j - 1] \in V
      BY <3>1
    <3>3. QED
      BY <1>5, <3>1, <3>2
  <2>3. f = [j \in 0..n |-> IF j = 0 THEN base ELSE Cell(j, f[j - 1])]
    BY <2>1, <2>2
  <2>4. QED
    BY <2>3
<1>8. Steps(r)
  <2> HIDE DEF Steps
  <2>1. Eq(r)
    BY <1>2, <1>3, <1>7
  <2>2. QED
    BY <1>2, <2>1
<1>9. r = [j \in 0..n |-> r[j]] /\ r[0] = base /\ \A j \in 1..n : r[j] = Cell(j, r[j - 1])
  <2>1. 0 \in 0..n /\ \A j \in 1..n : j \in 0..n /\ j # 0
    BY <1>1
  <2>2. QED
    BY <1>8, <2>1
<1>10. Chains(r, n, base, h) /\ r \in [0..n -> V]
  <2>1. \A j \in 1..n : r[j - 1] \in V => r[j] = h[<<r[j - 1], j>>]
    BY <1>5, <1>9
  <2>2. n \in Nat /\ base \in V /\ h \in [V \X (1..n) -> V]
    BY <1>1, <1>4, <1>5
  <2>3. r = [j \in 0..n |-> r[j]] /\ r[0] = base
    BY <1>9
  <2>4. SteppedBy(r, n, V, base, h)
    BY <2>1, <2>3 DEF SteppedBy
  <2> HIDE DEF Steps
  <2>5. QED
    BY <2>2, <2>4, StepsAreChain
<1>11. QED
  <2>1. OpsHere(a, b, dp, i, o, r)
    BY <1>9, <1>10 DEF OpsHere, n, V, base, Cell
  <2>2. QED
    BY <1>10, <2>1 DEF r, n, base, h

\* The first row does not depend on what is above it.
LEMMA FirstOps ==
  ASSUME NEW a \in Seq(Line), NEW b \in Seq(Line), NEW dp, NEW o, NEW q
  PROVE  OpsRow(a, b, dp, 0, o) = OpsRow(a, b, dp, 0, q)
<1> DEFINE n == Len(b)
           r == OpsRow(a, b, dp, 0, o)
           s == OpsRow(a, b, dp, 0, q)
           h == CellsOf(a, b, dp, 0, o)
<1>1. n \in Nat /\ 0 \in 0..Len(a)
  OBVIOUS
<1>2. OpsBase(a, 0, o) = <<>> /\ OpsBase(a, 0, q) = <<>>
  BY DEF OpsBase
<1>3. CellsOf(a, b, dp, 0, q) = h
  BY DEF CellsOf, OpsCell
<1>4. Chains(r, n, <<>>, h)
  BY <1>1, <1>2, OpsRowSteps
<1>5. Chains(s, n, <<>>, h)
  BY <1>1, <1>2, <1>3, OpsRowSteps
<1> HIDE DEF n, r, s, h
<1>6. r = s
  BY <1>1, <1>4, <1>5, ChainIsOnlyOne
<1>7. QED
  BY <1>6 DEF r, s

LinesListed(ops, dp, a, b) ==
  /\ \A i \in 0..Len(a) : ops[i] \in [0..Len(b) -> Seq(RawLines)]
  /\ ops[0][0] = <<>>
  /\ \A j \in 1..Len(b) : ops[0][j] = Append(ops[0][j - 1], Add(j, b[j]))
  /\ \A i \in 1..Len(a) : ops[i][0] = Append(ops[i - 1][0], Del(i, a[i]))
  /\ \A i \in 1..Len(a), j \in 1..Len(b) :
       ops[i][j] = IF a[i] = b[j] THEN Append(ops[i - 1][j - 1], Ctx(i, j, a[i]))
                   ELSE IF dp[i][j - 1] >= dp[i - 1][j] THEN Append(ops[i][j - 1], Add(j, b[j]))
                   ELSE Append(ops[i - 1][j], Del(i, a[i]))

LEMMA OpsTable ==
  ASSUME NEW a \in Seq(Line), NEW b \in Seq(Line)
  PROVE  \E ops : LinesListed(ops, Lcs(a, b), a, b) /\ Backtrack(a, b) = ops[Len(a)][Len(b)]
<1> DEFINE m == Len(a)
           n == Len(b)
           dp == Lcs(a, b)
           V == [0..n -> Seq(RawLines)]
           OneRow(i, o) == OpsRow(a, b, dp, i, o)
           base == OneRow(0, <<>>)
           Eq(f) == f = [i \in 0..m |-> OneRow(i, f[i - 1])]
           h == [p \in V \X (1..m) |-> OneRow(p[2], p[1])]
           ops == CHOOSE f : Eq(f)
<1>1. m \in Nat /\ n \in Nat /\ \A i \in 1..m : i \in 0..m /\ i - 1 \in 0..m /\ i # 0 /\ i > 0
  OBVIOUS
<1>2. OpsHere(a, b, dp, 0, <<>>, base) /\ base \in V
  <2>1. OpsHere(a, b, dp, 0, <<>>, base)
    BY <1>1, OpsRowSteps
  <2>2. QED
    BY <2>1 DEF OpsHere
<1>3. ASSUME NEW i \in 1..m, NEW o \in V PROVE OpsHere(a, b, dp, i, o, OneRow(i, o)) /\ OneRow(i, o) \in V
  <2>1. OpsHere(a, b, dp, i, o, OneRow(i, o))
    BY <1>1, OpsRowSteps
  <2>2. QED
    BY <2>1 DEF OpsHere
<1>4. \A o : OneRow(0, o) = base
  BY FirstOps
<1>5. Backtrack(a, b) = ops[m][n]
  BY BacktrackByRows
<1> HIDE DEF OneRow, base, V, dp
<1>6. h \in [V \X (1..m) -> V] /\ \A o \in V, i \in 1..m : h[<<o, i>>] = OneRow(i, o)
  <2> HIDE DEF m
  <2>1. \A p \in V \X (1..m) : p[1] \in V /\ p[2] \in 1..m
    OBVIOUS
  <2>2. \A p \in V \X (1..m) : OneRow(p[2], p[1]) \in V
    BY <1>3, <2>1
  <2>3. h \in [V \X (1..m) -> V]
    BY <2>2
  <2>4. ASSUME NEW o \in V, NEW i \in 1..m PROVE h[<<o, i>>] = OneRow(i, o)
    <3>1. <<o, i>> \in V \X (1..m) /\ <<o, i>>[1] = o /\ <<o, i>>[2] = i
      OBVIOUS
    <3>2. QED
      BY <3>1
  <2>5. QED
    BY <2>3, <2>4
<1> HIDE DEF h, m
<1>7. PICK f \in [0..m -> V] : Chains(f, m, base, h)
  BY <1>1, <1>2, <1>6, ChainExists
<1>8. Eq(f)
  <2>1. f = [i \in 0..m |-> IF i = 0 THEN base ELSE h[<<f[i - 1], i>>]]
    BY <1>7 DEF Chains
  <2>2. ASSUME NEW i \in 0..m
        PROVE  (IF i = 0 THEN base ELSE h[<<f[i - 1], i>>]) = OneRow(i, f[i - 1])
    <3>1. CASE i = 0
      BY <1>4, <3>1
    <3>2. CASE i # 0
      <4>1. i \in 1..m
        BY <1>1, <3>2
      <4>2. i - 1 \in 0..m
        BY <1>1, <4>1
      <4>3. f[i - 1] \in V
        BY <4>2
      <4>4. QED
        BY <1>6, <3>2, <4>1, <4>3
    <3>3. QED
      BY <3>1, <3>2
  <2>3. QED
    BY <2>1, <2>2
<1>9. Eq(ops)
  <2> HIDE DEF Eq
  <2> QED
    BY <1>8
<1> HIDE DEF ops
<1>10. \A i \in 0..m : ops[i] = OneRow(i, ops[i - 1])
  BY <1>9
<1>11. ops[0] = base
  <2>1. 0 \in 0..m
    BY <1>1
  <2>2. QED
    BY <1>4, <1>10, <2>1
<1> DEFINE S == {i \in 0..m : ops[i] \in V}
<1>12. \A i \in 0..m : ops[i] \in V
  <2>1. 0 \in S
    BY <1>1, <1>2, <1>11
  <2>2. ASSUME NEW i \in 0..(m - 1), i \in S PROVE i + 1 \in S
    <3>1. i + 1 \in 1..m /\ i + 1 \in 0..m /\ (i + 1) - 1 = i
      BY <1>1
    <3>2. OneRow(i + 1, ops[i]) \in V
      BY <1>3, <2>2, <3>1
    <3>3. QED
      BY <1>10, <3>1, <3>2
  <2>3. \A i \in 0..m : i \in S
    <3> HIDE DEF S
    <3> QED
      BY <1>1, <2>1, <2>2, Induct
  <2>4. QED
    BY <2>3
<1>13. ops[0][0] = <<>> /\ \A j \in 1..n : ops[0][j] = Append(ops[0][j - 1], Add(j, b[j]))
  <2>1. base[0] = OpsBase(a, 0, <<>>) /\ \A j \in 1..n : base[j] = OpsCell(a, b, dp, 0, <<>>, j, base[j - 1])
    BY <1>2 DEF OpsHere
  <2>2. OpsBase(a, 0, <<>>) = <<>>
    BY DEF OpsBase
  <2>3. \A j \in 1..n : OpsCell(a, b, dp, 0, <<>>, j, base[j - 1]) = Append(base[j - 1], Add(j, b[j]))
    BY DEF OpsCell
  <2>4. QED
    BY <1>11, <2>1, <2>2, <2>3
<1>14. ASSUME NEW i \in 1..m
       PROVE  /\ ops[i][0] = Append(ops[i - 1][0], Del(i, a[i]))
              /\ \A j \in 1..n :
                   ops[i][j] = IF a[i] = b[j] THEN Append(ops[i - 1][j - 1], Ctx(i, j, a[i]))
                               ELSE IF dp[i][j - 1] >= dp[i - 1][j] THEN Append(ops[i][j - 1], Add(j, b[j]))
                               ELSE Append(ops[i - 1][j], Del(i, a[i]))
  <2> DEFINE o == ops[i - 1]
             r == ops[i]
  <2>1. i \in 0..m /\ i - 1 \in 0..m /\ i # 0 /\ i > 0
    BY <1>1
  <2>2. o \in V /\ r = OneRow(i, o)
    BY <1>10, <1>12, <2>1
  <2> HIDE DEF o, r
  <2>3. OpsHere(a, b, dp, i, o, r)
    BY <1>3, <2>2
  <2>4. r[0] = OpsBase(a, i, o) /\ \A j \in 1..n : r[j] = OpsCell(a, b, dp, i, o, j, r[j - 1])
    BY <2>3 DEF OpsHere
  <2>5. OpsBase(a, i, o) = Append(o[0], Del(i, a[i]))
    BY <2>1 DEF OpsBase
  <2>6. ASSUME NEW j \in 1..n
        PROVE  OpsCell(a, b, dp, i, o, j, r[j - 1])
               = IF a[i] = b[j] THEN Append(o[j - 1], Ctx(i, j, a[i]))
                 ELSE IF dp[i][j - 1] >= dp[i - 1][j] THEN Append(r[j - 1], Add(j, b[j]))
                 ELSE Append(o[j], Del(i, a[i]))
    BY <2>1 DEF OpsCell
  <2>7. QED
    BY <2>4, <2>5, <2>6 DEF o, r
<1>15. LinesListed(ops, dp, a, b)
  BY <1>12, <1>13, <1>14 DEF LinesListed, V, m
<1>16. QED
  BY <1>5, <1>15 DEF dp, m

Changed(raw) == {k \in DOMAIN raw : raw[k].kind # "ctx"}
AddsIn(lines) == {l \in ToSet(lines) : l.kind = "add"}
DelsIn(lines) == {l \in ToSet(lines) : l.kind = "del"}

LEMMA LinesGrow ==
  ASSUME NEW s \in Seq(RawLines), NEW l \in RawLines
  PROVE  /\ Append(s, l) \in Seq(RawLines)
         /\ ToSet(Append(s, l)) = ToSet(s) \cup {l}
         /\ IsFiniteSet(Changed(s)) /\ Cardinality(Changed(s)) \in Nat
         /\ Cardinality(Changed(Append(s, l))) = Cardinality(Changed(s)) + IF l.kind = "ctx" THEN 0 ELSE 1
<1> DEFINE t == Append(s, l)
           n == Len(s)
<1>1. n \in Nat /\ DOMAIN s = 1..n
  OBVIOUS
<1>2. t \in Seq(RawLines) /\ Len(t) = n + 1 /\ t[n + 1] = l /\ \A k \in 1..n : t[k] = s[k]
  BY AppendProperties
<1>3. DOMAIN t = 1..(n + 1)
  BY <1>1, <1>2
<1> HIDE DEF t, n
<1>4. 1..(n + 1) = (1..n) \cup {n + 1} /\ n + 1 \notin 1..n
  BY <1>1
<1>5. ToSet(t) = ToSet(s) \cup {l}
  BY <1>1, <1>2, <1>3, <1>4 DEF ToSet
<1>6. Changed(t) = IF l.kind = "ctx" THEN Changed(s) ELSE Changed(s) \cup {n + 1}
  <2>1. \A k \in 1..(n + 1) : k \in 1..n \/ k = n + 1
    BY <1>4
  <2>2. CASE l.kind = "ctx"
    <3>1. \A k : k \in Changed(t) <=> k \in 1..n /\ s[k].kind # "ctx"
      BY <1>2, <1>3, <1>4, <2>2 DEF Changed
    <3>2. QED
      BY <1>1, <2>2, <3>1 DEF Changed
  <2>3. CASE l.kind # "ctx"
    <3>1. \A k : k \in Changed(t) <=> (k \in 1..n /\ s[k].kind # "ctx") \/ k = n + 1
      BY <1>2, <1>3, <1>4, <2>3 DEF Changed
    <3>2. QED
      BY <1>1, <2>3, <3>1 DEF Changed
  <2>4. QED
    BY <2>2, <2>3
<1>7. Changed(s) \in SUBSET (1..n) /\ n + 1 \notin Changed(s)
  BY <1>1, <1>4 DEF Changed
<1>8. IsFiniteSet(Changed(s)) /\ Cardinality(Changed(s)) \in Nat
  BY <1>1, <1>7, SubsetOfRange
<1>9. Cardinality(Changed(s) \cup {n + 1}) = Cardinality(Changed(s)) + 1
  <2> DEFINE C == Changed(s)
  <2> HIDE DEF C
  <2>1. IsFiniteSet(C) /\ n + 1 \notin C
    BY <1>7, <1>8 DEF C
  <2>2. Cardinality(C \cup {n + 1}) = Cardinality(C) + 1
    BY <2>1, FS_AddElement
  <2>3. QED
    BY <2>2 DEF C
<1>10. QED
  BY <1>2, <1>5, <1>6, <1>8, <1>9 DEF t

(* The lines found so far: what they drop of the first i lines of the base *)
(* and what they add of the first j of the other text leaves the same k.   *)
Found(r, a, b, i, j, k, D, N) ==
  /\ D \in SUBSET (1..i) /\ N \in SUBSET (1..j)
  /\ AddsIn(r) = {Add(x, b[x]) : x \in N} /\ DelsIn(r) = {Del(x, a[x]) : x \in D}
  /\ Pick(a, (1..i) \ D) = Pick(b, (1..j) \ N) /\ Cardinality((1..i) \ D) = k
  /\ Cardinality(Changed(r)) = i + j - 2 * k
Way(r, a, b, i, j, k) == \E D, N : Found(r, a, b, i, j, k, D, N)

LEMMA NoWay ==
  ASSUME NEW a \in Seq(Line), NEW b \in Seq(Line)
  PROVE  Way(<<>>, a, b, 0, 0, 0)
<1>1. {} \in SUBSET (1..Len(a)) /\ {} \in SUBSET (1..Len(b)) /\ Cardinality({}) = 0
  BY FS_EmptySet
<1>2. Pick(a, {}) \in Seq(Line) /\ Pick(b, {}) \in Seq(Line) /\ Len(Pick(a, {})) = 0 /\ Len(Pick(b, {})) = 0
  BY <1>1, PickNth
<1>3. Pick(a, {}) = Pick(b, {})
  BY <1>2, SeqEqual
<1>4. ToSet(<<>>) = {} /\ Changed(<<>>) = {}
  BY DEF ToSet, Changed
<1>5. (1..0) \ {} = {}
  OBVIOUS
<1>6. AddsIn(<<>>) = {} /\ DelsIn(<<>>) = {}
  BY <1>4 DEF AddsIn, DelsIn
<1>7. {Add(x, b[x]) : x \in {}} = {} /\ {Del(x, a[x]) : x \in {}} = {} /\ 0 + 0 - 2 * 0 = 0
  OBVIOUS
<1> DEFINE r == <<>>
<1>8. AddsIn(r) = {} /\ DelsIn(r) = {} /\ Changed(r) = {}
  BY <1>4, <1>6
<1> HIDE DEF r
<1>9. Found(r, a, b, 0, 0, 0, {}, {})
  BY <1>1, <1>3, <1>5, <1>7, <1>8 DEF Found
<1>10. Found(<<>>, a, b, 0, 0, 0, {}, {})
  BY <1>9 DEF r
<1>11. QED
  BY <1>10 DEF Way

LEMMA WayAdds ==
  ASSUME NEW a \in Seq(Line), NEW b \in Seq(Line), NEW i \in 0..Len(a), NEW j \in 1..Len(b),
         NEW k \in Nat, NEW r \in Seq(RawLines), Way(r, a, b, i, j - 1, k)
  PROVE  Way(Append(r, Add(j, b[j])), a, b, i, j, k)
<1>1. PICK D, N : Found(r, a, b, i, j - 1, k, D, N)
  BY DEF Way
<1> DEFINE l == Add(j, b[j])
           q == Append(r, l)
           M == N \cup {j}
<1>2. j \in Nat /\ b[j] \in Line /\ i \in Nat /\ 1..j = (1..(j - 1)) \cup {j} /\ j \notin 1..(j - 1)
  OBVIOUS
<1>3. l \in RawLines /\ l.kind = "add"
  BY <1>2, RawLineType DEF Add
<1>4. ToSet(q) = ToSet(r) \cup {l} /\ Cardinality(Changed(r)) \in Nat
      /\ Cardinality(Changed(q)) = Cardinality(Changed(r)) + 1
  <2> HIDE DEF l
  <2>1. QED
    BY <1>3, LinesGrow
<1>5. N \in SUBSET (1..(j - 1)) /\ D \in SUBSET (1..i)
  BY <1>1 DEF Found
<1>6. M \in SUBSET (1..j) /\ (1..j) \ M = (1..(j - 1)) \ N
  BY <1>2, <1>5
<1>7. AddsIn(q) = {Add(x, b[x]) : x \in M} /\ DelsIn(q) = {Del(x, a[x]) : x \in D}
  <2>1. AddsIn(q) = AddsIn(r) \cup {l} /\ DelsIn(q) = DelsIn(r)
    <3> HIDE DEF l, q
    <3>1. QED
      BY <1>3, <1>4 DEF AddsIn, DelsIn
  <2>2. AddsIn(r) = {Add(x, b[x]) : x \in N} /\ DelsIn(r) = {Del(x, a[x]) : x \in D}
    BY <1>1 DEF Found
  <2>3. {Add(x, b[x]) : x \in M} = {Add(x, b[x]) : x \in N} \cup {l}
    OBVIOUS
  <2>4. QED
    BY <2>1, <2>2, <2>3
<1>8. Cardinality(Changed(q)) = i + j - 2 * k
  <2> DEFINE c == Cardinality(Changed(r))
             d == Cardinality(Changed(q))
  <2>1. c = i + (j - 1) - 2 * k /\ d = c + 1
    BY <1>1, <1>4 DEF Found
  <2> HIDE DEF c, d
  <2>2. d = i + j - 2 * k
    BY <1>2, <2>1
  <2>3. QED
    BY <2>2 DEF d
<1>9. Pick(a, (1..i) \ D) = Pick(b, (1..j) \ M) /\ Cardinality((1..i) \ D) = k
  BY <1>1, <1>6 DEF Found
<1>10. Found(q, a, b, i, j, k, D, M)
  <2> HIDE DEF q, M
  <2>1. QED
    BY <1>5, <1>6, <1>7, <1>8, <1>9 DEF Found
<1>11. QED
  BY <1>10 DEF Way

LEMMA WayDrops ==
  ASSUME NEW a \in Seq(Line), NEW b \in Seq(Line), NEW i \in 1..Len(a), NEW j \in 0..Len(b),
         NEW k \in Nat, NEW r \in Seq(RawLines), Way(r, a, b, i - 1, j, k)
  PROVE  Way(Append(r, Del(i, a[i])), a, b, i, j, k)
<1>1. PICK D, N : Found(r, a, b, i - 1, j, k, D, N)
  BY DEF Way
<1> DEFINE l == Del(i, a[i])
           q == Append(r, l)
           E == D \cup {i}
<1>2. i \in Nat /\ a[i] \in Line /\ j \in Nat /\ 1..i = (1..(i - 1)) \cup {i} /\ i \notin 1..(i - 1)
  OBVIOUS
<1>3. l \in RawLines /\ l.kind = "del"
  BY <1>2, RawLineType DEF Del
<1>4. ToSet(q) = ToSet(r) \cup {l} /\ Cardinality(Changed(r)) \in Nat
      /\ Cardinality(Changed(q)) = Cardinality(Changed(r)) + 1
  <2> HIDE DEF l
  <2>1. QED
    BY <1>3, LinesGrow
<1>5. N \in SUBSET (1..j) /\ D \in SUBSET (1..(i - 1))
  BY <1>1 DEF Found
<1>6. E \in SUBSET (1..i) /\ (1..i) \ E = (1..(i - 1)) \ D
  BY <1>2, <1>5
<1>7. AddsIn(q) = {Add(x, b[x]) : x \in N} /\ DelsIn(q) = {Del(x, a[x]) : x \in E}
  <2>1. AddsIn(q) = AddsIn(r) /\ DelsIn(q) = DelsIn(r) \cup {l}
    <3> HIDE DEF l, q
    <3>1. QED
      BY <1>3, <1>4 DEF AddsIn, DelsIn
  <2>2. AddsIn(r) = {Add(x, b[x]) : x \in N} /\ DelsIn(r) = {Del(x, a[x]) : x \in D}
    BY <1>1 DEF Found
  <2>3. {Del(x, a[x]) : x \in E} = {Del(x, a[x]) : x \in D} \cup {l}
    OBVIOUS
  <2>4. QED
    BY <2>1, <2>2, <2>3
<1>8. Cardinality(Changed(q)) = i + j - 2 * k
  <2> DEFINE c == Cardinality(Changed(r))
             d == Cardinality(Changed(q))
  <2>1. c = (i - 1) + j - 2 * k /\ d = c + 1
    BY <1>1, <1>4 DEF Found
  <2> HIDE DEF c, d
  <2>2. d = i + j - 2 * k
    BY <1>2, <2>1
  <2>3. QED
    BY <2>2 DEF d
<1>9. Pick(a, (1..i) \ E) = Pick(b, (1..j) \ N) /\ Cardinality((1..i) \ E) = k
  BY <1>1, <1>6 DEF Found
<1>10. Found(q, a, b, i, j, k, E, N)
  <2> HIDE DEF q, E
  <2>1. QED
    BY <1>5, <1>6, <1>7, <1>8, <1>9 DEF Found
<1>11. QED
  BY <1>10 DEF Way

LEMMA WayKeeps ==
  ASSUME NEW a \in Seq(Line), NEW b \in Seq(Line), NEW i \in 1..Len(a), NEW j \in 1..Len(b),
         NEW k \in Nat, NEW r \in Seq(RawLines), Way(r, a, b, i - 1, j - 1, k), a[i] = b[j]
  PROVE  Way(Append(r, Ctx(i, j, a[i])), a, b, i, j, k + 1)
<1>1. PICK D, N : Found(r, a, b, i - 1, j - 1, k, D, N)
  BY DEF Way
<1> DEFINE l == Ctx(i, j, a[i])
           q == Append(r, l)
           A == (1..i) \ D
           B == (1..j) \ N
<1>2. /\ i \in Nat /\ a[i] \in Line /\ 1..i = (1..(i - 1)) \cup {i} /\ i \notin 1..(i - 1)
      /\ j \in Nat /\ 1..j = (1..(j - 1)) \cup {j} /\ j \notin 1..(j - 1)
  OBVIOUS
<1>3. l \in RawLines /\ l.kind = "ctx"
  BY <1>2, RawLineType DEF Ctx
<1>4. ToSet(q) = ToSet(r) \cup {l} /\ Cardinality(Changed(r)) \in Nat
      /\ Cardinality(Changed(q)) = Cardinality(Changed(r)) + 0
  <2> HIDE DEF l
  <2>1. QED
    BY <1>3, LinesGrow
<1>5. N \in SUBSET (1..(j - 1)) /\ D \in SUBSET (1..(i - 1))
  BY <1>1 DEF Found
<1>6. /\ D \in SUBSET (1..i) /\ N \in SUBSET (1..j)
      /\ i \in A /\ A \ {i} = (1..(i - 1)) \ D /\ j \in B /\ B \ {j} = (1..(j - 1)) \ N
  BY <1>2, <1>5
<1>7. /\ A \in SUBSET (1..Len(a)) /\ B \in SUBSET (1..Len(b))
      /\ (\A x \in A : x <= i) /\ \A x \in B : x <= j
  OBVIOUS
<1>8. AddsIn(q) = {Add(x, b[x]) : x \in N} /\ DelsIn(q) = {Del(x, a[x]) : x \in D}
  <2>1. AddsIn(q) = AddsIn(r) /\ DelsIn(q) = DelsIn(r)
    <3> HIDE DEF l, q
    <3>1. QED
      BY <1>3, <1>4 DEF AddsIn, DelsIn
  <2>2. QED
    BY <1>1, <2>1 DEF Found
<1>9. Cardinality(Changed(q)) = i + j - 2 * (k + 1)
  <2> DEFINE c == Cardinality(Changed(r))
             d == Cardinality(Changed(q))
  <2>1. c = (i - 1) + (j - 1) - 2 * k /\ d = c + 0
    BY <1>1, <1>4 DEF Found
  <2> HIDE DEF c, d
  <2>2. d = i + j - 2 * (k + 1)
    BY <1>2, <2>1
  <2>3. QED
    BY <2>2 DEF d
<1>10. Pick(a, A \ {i}) = Pick(b, B \ {j}) /\ Cardinality(A \ {i}) = k
  BY <1>1, <1>6 DEF Found
<1> HIDE DEF A, B
<1>11. Pick(a, A) = Append(Pick(a, A \ {i}), a[i]) /\ Cardinality(A) = Cardinality(A \ {i}) + 1
  <2>1. i \in A /\ A \in SUBSET (1..Len(a)) /\ \A x \in A : x <= i
    BY <1>6, <1>7
  <2>2. QED
    BY <2>1, PickLast
<1>12. Pick(b, B) = Append(Pick(b, B \ {j}), b[j])
  BY <1>6, <1>7, PickLast
<1>13. Pick(a, A) = Pick(b, B) /\ Cardinality(A) = k + 1
  BY <1>10, <1>11, <1>12
<1>14. Found(q, a, b, i, j, k + 1, D, N)
  <2> HIDE DEF q
  <2>1. QED
    BY <1>6, <1>8, <1>9, <1>13 DEF Found, A, B
<1>15. QED
  BY <1>14 DEF Way

LEMMA EveryWay ==
  ASSUME NEW a \in Seq(Line), NEW b \in Seq(Line), NEW dp, Tabled(dp, a, b),
         NEW ops, LinesListed(ops, dp, a, b)
  PROVE  /\ ops[Len(a)][Len(b)] \in Seq(RawLines) /\ dp[Len(a)][Len(b)] \in Nat
         /\ Way(ops[Len(a)][Len(b)], a, b, Len(a), Len(b), dp[Len(a)][Len(b)])
<1> DEFINE m == Len(a)
           n == Len(b)
           Good(i, j) == Way(ops[i][j], a, b, i, j, dp[i][j])
           S == {p \in (0..m) \X (0..n) : Good(p[1], p[2])}
<1>1. m \in Nat /\ n \in Nat
  OBVIOUS
<1>2. \A i \in 0..m, j \in 0..n : ops[i][j] \in Seq(RawLines) /\ dp[i][j] \in Nat
  <2> TAKE i \in 0..m, j \in 0..n
  <2>1. ops[i] \in [0..n -> Seq(RawLines)] /\ dp[i] \in [0..n -> Nat]
    BY DEF LinesListed, Tabled
  <2> DEFINE o == ops[i]  d == dp[i]
  <2> HIDE DEF o, d
  <2>2. o[j] \in Seq(RawLines) /\ d[j] \in Nat
    BY <2>1 DEF o, d
  <2>3. QED
    BY <2>2 DEF o, d
<1>3. \A j \in 0..n : dp[0][j] = 0
  BY DEF Tabled
<1>4. \A i \in 0..m : dp[i][0] = 0
  <2> TAKE i \in 0..m
  <2>1. i = 0 \/ i \in 1..m
    OBVIOUS
  <2>2. 0 \in 0..n
    BY <1>1
  <2>3. QED
    BY <1>3, <2>1, <2>2 DEF Tabled
<1>5. Good(0, 0)
  <2>1. dp[0][0] = 0 /\ ops[0][0] = <<>>
    BY <1>1, <1>3 DEF LinesListed
  <2>2. QED
    BY <2>1, NoWay
<1>6. \A j \in 0..n : Good(0, j)
  <2> DEFINE Q == {j \in 0..n : Good(0, j)}
  <2>1. 0 \in Q
    BY <1>1, <1>5
  <2>2. ASSUME NEW k \in 0..(n - 1), k \in Q PROVE k + 1 \in Q
    <3> DEFINE j == k + 1
    <3>1. j \in 1..n /\ j \in 0..n /\ j - 1 = k /\ k \in 0..n /\ 0 \in 0..m
      BY <1>1
    <3> HIDE DEF j
    <3>2. /\ ops[0][j] = Append(ops[0][j - 1], Add(j, b[j])) /\ dp[0][j] = 0 /\ dp[0][j - 1] = 0
          /\ ops[0][j - 1] \in Seq(RawLines) /\ Way(ops[0][j - 1], a, b, 0, j - 1, dp[0][j - 1])
      BY <1>2, <1>3, <2>2, <3>1 DEF LinesListed
    <3> DEFINE r == ops[0][j - 1]
    <3>3. r \in Seq(RawLines) /\ Way(r, a, b, 0, j - 1, 0) /\ 0 \in Nat
      BY <3>2
    <3> HIDE DEF r
    <3>4. Way(Append(r, Add(j, b[j])), a, b, 0, j, 0)
      BY <3>1, <3>3, WayAdds
    <3>5. Good(0, j)
      BY <3>2, <3>4 DEF r
    <3>6. QED
      BY <3>1, <3>5 DEF j
  <2>3. \A j \in 0..n : j \in Q
    <3> HIDE DEF Q
    <3> QED
      BY <1>1, <2>1, <2>2, Induct
  <2>4. QED
    BY <2>3
<1>7. \A i \in 0..m : Good(i, 0)
  <2> DEFINE Q == {i \in 0..m : Good(i, 0)}
  <2>1. 0 \in Q
    BY <1>1, <1>5
  <2>2. ASSUME NEW k \in 0..(m - 1), k \in Q PROVE k + 1 \in Q
    <3> DEFINE i == k + 1
    <3>1. i \in 1..m /\ i \in 0..m /\ i - 1 = k /\ k \in 0..m /\ 0 \in 0..n
      BY <1>1
    <3> HIDE DEF i
    <3>2. /\ ops[i][0] = Append(ops[i - 1][0], Del(i, a[i])) /\ dp[i][0] = 0 /\ dp[i - 1][0] = 0
          /\ ops[i - 1][0] \in Seq(RawLines) /\ Way(ops[i - 1][0], a, b, i - 1, 0, dp[i - 1][0])
      BY <1>2, <1>4, <2>2, <3>1 DEF LinesListed
    <3> DEFINE r == ops[i - 1][0]
    <3>3. r \in Seq(RawLines) /\ Way(r, a, b, i - 1, 0, 0) /\ 0 \in Nat
      BY <3>2
    <3> HIDE DEF r
    <3>4. Way(Append(r, Del(i, a[i])), a, b, i, 0, 0)
      BY <3>1, <3>3, WayDrops
    <3>5. Good(i, 0)
      BY <3>2, <3>4 DEF r
    <3>6. QED
      BY <3>1, <3>5 DEF i
  <2>3. \A i \in 0..m : i \in Q
    <3> HIDE DEF Q
    <3> QED
      BY <1>1, <2>1, <2>2, Induct
  <2>4. QED
    BY <2>3
<1>8. ASSUME NEW i \in 1..m, NEW j \in 1..n, Good(i - 1, j - 1), Good(i - 1, j), Good(i, j - 1)
      PROVE  Good(i, j)
  <2>1. i \in 0..m /\ i - 1 \in 0..m /\ j \in 0..n /\ j - 1 \in 0..n
    OBVIOUS
  <2> DEFINE both == ops[i - 1][j - 1]  left == ops[i][j - 1]  up == ops[i - 1][j]
             k == dp[i - 1][j - 1]  kl == dp[i][j - 1]  ku == dp[i - 1][j]
  <2>2. /\ both \in Seq(RawLines) /\ left \in Seq(RawLines) /\ up \in Seq(RawLines)
        /\ k \in Nat /\ kl \in Nat /\ ku \in Nat
    BY <1>2, <2>1
  <2>3. /\ Way(both, a, b, i - 1, j - 1, k) /\ Way(up, a, b, i - 1, j, ku) /\ Way(left, a, b, i, j - 1, kl)
    BY <1>8
  <2>4. dp[i][j] = IF a[i] = b[j] THEN k + 1 ELSE Larger(ku, kl)
    BY DEF Tabled
  <2>5. ops[i][j] = IF a[i] = b[j] THEN Append(both, Ctx(i, j, a[i]))
                    ELSE IF kl >= ku THEN Append(left, Add(j, b[j]))
                    ELSE Append(up, Del(i, a[i]))
    BY DEF LinesListed
  <2> HIDE DEF both, left, up, k, kl, ku
  <2>6. CASE a[i] = b[j]
    <3>1. Way(Append(both, Ctx(i, j, a[i])), a, b, i, j, k + 1)
      BY <2>2, <2>3, <2>6, WayKeeps
    <3>2. QED
      BY <2>4, <2>5, <2>6, <3>1
  <2>7. CASE a[i] # b[j] /\ kl >= ku
    <3>1. Way(Append(left, Add(j, b[j])), a, b, i, j, kl)
      BY <2>1, <2>2, <2>3, WayAdds
    <3>2. Larger(ku, kl) = kl
      BY <2>2, <2>7 DEF Larger
    <3>3. QED
      BY <2>4, <2>5, <2>7, <3>1, <3>2
  <2>8. CASE a[i] # b[j] /\ ~(kl >= ku)
    <3>1. Way(Append(up, Del(i, a[i])), a, b, i, j, ku)
      BY <2>1, <2>2, <2>3, WayDrops
    <3>2. Larger(ku, kl) = ku
      BY <2>2, <2>8 DEF Larger
    <3>3. QED
      BY <2>4, <2>5, <2>8, <3>1, <3>2
  <2>9. QED
    BY <2>6, <2>7, <2>8
<1> HIDE DEF Good
<1>9. \A i \in 0..m, j \in 0..n : <<i, j>> \in S
  <2>1. \A i \in 0..m : <<i, 0>> \in S
    BY <1>1, <1>7
  <2>2. \A j \in 0..n : <<0, j>> \in S
    BY <1>1, <1>6
  <2>3. ASSUME NEW i \in 1..m, NEW j \in 1..n,
               <<i - 1, j - 1>> \in S, <<i - 1, j>> \in S, <<i, j - 1>> \in S
        PROVE  <<i, j>> \in S
    <3>1. Good(i - 1, j - 1) /\ Good(i - 1, j) /\ Good(i, j - 1)
      BY <2>3
    <3>2. Good(i, j)
      BY <1>8, <3>1
    <3>3. QED
      BY <3>2
  <2> HIDE DEF S
  <2>4. QED
    BY <1>1, <2>1, <2>2, <2>3, TableInduct
<1>10. <<m, n>> \in S /\ m \in 0..m /\ n \in 0..n
  BY <1>1, <1>9
<1>11. QED
  BY <1>2, <1>10 DEF Good

LEMMA LongestIsTable ==
  ASSUME NEW a \in Seq(Line), NEW b \in Seq(Line), NEW dp, Tabled(dp, a, b),
         NEW k \in Nat, k = dp[Len(a)][Len(b)],
         NEW A \in SUBSET (1..Len(a)), NEW B \in SUBSET (1..Len(b)),
         Pick(a, A) = Pick(b, B), Cardinality(A) = k
  PROVE  LongestCommon(a, b) = k
<1> DEFINE common == Subsequences(a) \cap Subsequences(b)
           lengths == {Len(c) : c \in common}
<1>1. DOMAIN a = 1..Len(a) /\ DOMAIN b = 1..Len(b)
  OBVIOUS
<1>2. k \in lengths
  <2>1. Pick(a, A) \in common
    BY <1>1 DEF Subsequences
  <2>2. Len(Pick(a, A)) = k
    BY PickNth
  <2>3. QED
    BY <2>1, <2>2
<1>3. ASSUME NEW y \in lengths PROVE y <= k /\ y \in Nat
  <2>1. PICK C \in SUBSET (1..Len(a)), E \in SUBSET (1..Len(b)) : y = Len(Pick(a, C)) /\ Pick(a, C) = Pick(b, E)
    BY <1>1 DEF Subsequences
  <2>2. y = Cardinality(C) /\ y \in Nat
    <3>1. Len(Pick(a, C)) = Cardinality(C)
      BY PickNth
    <3>2. Cardinality(C) \in Nat
      <4>1. Len(a) \in Nat
        OBVIOUS
      <4>2. QED
        BY <4>1, SubsetOfRange
    <3>3. QED
      BY <2>1, <3>1, <3>2
  <2>3. Bounds(dp, a, b, Len(a), Len(b))
    BY CommonIsBounded
  <2>4. QED
    BY <2>1, <2>2, <2>3 DEF Bounds
<1> HIDE DEF lengths
<1>4. Max(lengths) = k
  <2>1. \A y \in lengths : k >= y
    BY <1>3
  <2>2. Max(lengths) \in lengths /\ \A y \in lengths : Max(lengths) >= y
    BY <1>2, <2>1 DEF Max
  <2>3. Max(lengths) >= k /\ Max(lengths) <= k /\ Max(lengths) \in Nat
    BY <1>2, <1>3, <2>2
  <2>4. QED
    BY <2>3
<1>5. QED
  BY <1>4 DEF LongestCommon, lengths

\* What is found on the way back is shortest.
LEMMA WayBack ==
  ASSUME NEW a \in Seq(Line), NEW b \in Seq(Line)
  PROVE  /\ Backtrack(a, b) \in Seq(RawLines) /\ LongestCommon(a, b) \in Nat
         /\ Way(Backtrack(a, b), a, b, Len(a), Len(b), LongestCommon(a, b))
         /\ \A A \in SUBSET (1..Len(a)), B \in SUBSET (1..Len(b)) :
              Pick(a, A) = Pick(b, B) => Cardinality(A) <= LongestCommon(a, b)
<1> DEFINE dp == Lcs(a, b)
           k == dp[Len(a)][Len(b)]
           r == Backtrack(a, b)
<1>1. Len(a) \in Nat /\ Len(b) \in Nat
  OBVIOUS
<1>2. Tabled(dp, a, b)
  BY <1>1, LcsTable
<1>3. PICK ops : LinesListed(ops, dp, a, b) /\ r = ops[Len(a)][Len(b)]
  BY OpsTable
<1> HIDE DEF dp, r
<1>4. r \in Seq(RawLines) /\ k \in Nat /\ Way(r, a, b, Len(a), Len(b), k)
  BY <1>2, <1>3, EveryWay
<1>5. PICK D, N : Found(r, a, b, Len(a), Len(b), k, D, N)
  BY <1>4 DEF Way
<1> DEFINE A == (1..Len(a)) \ D
           B == (1..Len(b)) \ N
<1>6. Pick(a, A) = Pick(b, B) /\ Cardinality(A) = k
  BY <1>5 DEF Found
<1>7. A \in SUBSET (1..Len(a)) /\ B \in SUBSET (1..Len(b))
  OBVIOUS
<1>8. k = dp[Len(a)][Len(b)]
  OBVIOUS
<1> HIDE DEF A, B, k
<1>9. LongestCommon(a, b) = k
  BY <1>2, <1>4, <1>6, <1>7, <1>8, LongestIsTable
<1>10. Bounds(dp, a, b, Len(a), Len(b))
  BY <1>2, CommonIsBounded
<1>11. \A C \in SUBSET (1..Len(a)), E \in SUBSET (1..Len(b)) :
         Pick(a, C) = Pick(b, E) => Cardinality(C) <= k
  BY <1>8, <1>10 DEF Bounds
<1>12. QED
  BY <1>4, <1>9, <1>11 DEF r

---------------------------------------------------------------------------
(* What is left out of the lines is not a change.                          *)

ShownLines == RawLines \cup {Sep}
Edits(lines) == {k \in DOMAIN lines : lines[k].kind \in {"add", "del"}}
EditCount(lines) == First(Edits(lines), Len(lines))

LEMMA EditsJoined ==
  ASSUME NEW T, NEW a \in Seq(T), NEW b \in Seq(T)
  PROVE  /\ a \o b \in Seq(T) /\ EditCount(a \o b) = EditCount(a) + EditCount(b)
         /\ AddsIn(a \o b) = AddsIn(a) \cup AddsIn(b) /\ DelsIn(a \o b) = DelsIn(a) \cup DelsIn(b)
<1> DEFINE c == a \o b
           m == Len(a)
           n == Len(b)
<1>1. /\ c \in Seq(T) /\ Len(c) = m + n /\ m \in Nat /\ n \in Nat
      /\ DOMAIN c = 1..(m + n) /\ DOMAIN a = 1..m /\ DOMAIN b = 1..n
      /\ \A i \in 1..m : c[i] = a[i] /\ i \in 1..(m + n)
      /\ \A i \in 1..n : c[m + i] = b[i] /\ m + i \in 1..(m + n)
  OBVIOUS
<1> HIDE DEF c, m, n
<1>2. Parts(Edits(c), Edits(a), Edits(b), m, n)
  BY <1>1 DEF Edits, Parts
<1>3. First(Edits(c), m + n) = First(Edits(a), m) + First(Edits(b), n)
  BY <1>1, <1>2, TwoParts
<1>4. ToSet(c) = ToSet(a) \cup ToSet(b)
  <2>1. \A i \in 1..(m + n) : i \in 1..m \/ (i - m \in 1..n /\ m + (i - m) = i)
    BY <1>1
  <2>2. \A i \in 1..(m + n) : c[i] \in ToSet(a) \cup ToSet(b)
    <3> TAKE i \in 1..(m + n)
    <3>1. CASE i \in 1..m
      BY <1>1, <3>1 DEF ToSet
    <3>2. CASE i \notin 1..m
      <4>1. i - m \in 1..n /\ c[m + (i - m)] = b[i - m] /\ m + (i - m) = i
        BY <1>1, <2>1, <3>2
      <4>2. QED
        BY <1>1, <4>1 DEF ToSet
    <3>3. QED
      BY <3>1, <3>2
  <2>3. ToSet(c) \subseteq ToSet(a) \cup ToSet(b)
    BY <1>1, <2>2 DEF ToSet
  <2>4. ToSet(a) \subseteq ToSet(c) /\ ToSet(b) \subseteq ToSet(c)
    BY Joined DEF c
  <2>5. QED
    BY <2>3, <2>4
<1>5. AddsIn(c) = AddsIn(a) \cup AddsIn(b) /\ DelsIn(c) = DelsIn(a) \cup DelsIn(b)
  BY <1>4 DEF AddsIn, DelsIn
<1>6. QED
  BY <1>1, <1>3, <1>5 DEF EditCount, c, m, n

\* A line is shown as such, after a separator, or, if it is no change, not at all.
LEMMA OneLineShown ==
  ASSUME NEW l \in RawLines, NEW s, s \in {<<l>>, <<Sep, l>>} \/ (s = <<>> /\ l.kind = "ctx")
  PROVE  /\ s \in Seq(ShownLines) /\ EditCount(s) = IF l.kind = "ctx" THEN 0 ELSE 1
         /\ AddsIn(s) = {x \in {l} : x.kind = "add"} /\ DelsIn(s) = {x \in {l} : x.kind = "del"}
<1>1. l.kind \in {"ctx", "add", "del"}
  BY DEF RawLines
<1>2. Sep.kind = "sep" /\ Sep \in ShownLines /\ l \in ShownLines
  BY DEF Sep, ShownLines
<1>3. CASE s = <<>>
  <2>1. ToSet(s) = {} /\ Edits(s) = {} /\ Len(s) = 0 /\ s \in Seq(ShownLines)
    BY <1>3 DEF ToSet, Edits
  <2>2. EditCount(s) = 0
    BY <2>1, FirstType DEF EditCount
  <2>3. l.kind = "ctx"
    BY <1>3
  <2>4. QED
    BY <1>3, <2>1, <2>2, <2>3 DEF AddsIn, DelsIn
<1>4. CASE s = <<l>>
  <2>1. /\ s \in Seq(ShownLines) /\ Len(s) = 1 /\ DOMAIN s = 1..1 /\ s[1] = l
    BY <1>2, <1>4
  <2>2. ToSet(s) = {l}
    BY <2>1 DEF ToSet
  <2>3. First(Edits(s), 0 + 1) = First(Edits(s), 0) + IF 0 + 1 \in Edits(s) THEN 1 ELSE 0
    BY FirstStep
  <2>4. 1 \in Edits(s) <=> l.kind # "ctx"
    BY <1>1, <2>1 DEF Edits
  <2>5. First(Edits(s), 0) = 0
    BY FirstType
  <2>6. EditCount(s) = IF l.kind = "ctx" THEN 0 ELSE 1
    BY <2>1, <2>3, <2>4, <2>5 DEF EditCount
  <2>7. QED
    BY <2>1, <2>2, <2>6 DEF AddsIn, DelsIn
<1>5. CASE s = <<Sep, l>>
  <2>1. /\ s \in Seq(ShownLines) /\ Len(s) = 2 /\ DOMAIN s = 1..2 /\ s[1] = Sep /\ s[2] = l
    BY <1>2, <1>5
  <2>2. ToSet(s) = {Sep, l}
    <3>1. 1..2 = {1, 2}
      OBVIOUS
    <3>2. QED
      BY <2>1, <3>1 DEF ToSet
  <2>3. /\ First(Edits(s), 0 + 1) = First(Edits(s), 0) + IF 0 + 1 \in Edits(s) THEN 1 ELSE 0
        /\ First(Edits(s), 1 + 1) = First(Edits(s), 1) + IF 1 + 1 \in Edits(s) THEN 1 ELSE 0
    BY FirstStep
  <2>4. 1 \notin Edits(s) /\ (2 \in Edits(s) <=> l.kind # "ctx")
    BY <1>1, <1>2, <2>1 DEF Edits
  <2>5. First(Edits(s), 0) = 0
    BY FirstType
  <2>6. EditCount(s) = IF l.kind = "ctx" THEN 0 ELSE 1
    BY <2>1, <2>3, <2>4, <2>5 DEF EditCount
  <2>7. QED
    BY <1>2, <2>1, <2>2, <2>6 DEF AddsIn, DelsIn
<1>6. QED
  BY <1>3, <1>4, <1>5

Same(f, raw, k) ==
  /\ EditCount(f) = First(Changed(raw), k)
  /\ AddsIn(f) = {l \in {raw[x] : x \in 1..k} : l.kind = "add"}
  /\ DelsIn(f) = {l \in {raw[x] : x \in 1..k} : l.kind = "del"}
  /\ Changed(raw) = {} => f = <<>>

LEMMA CollapseKeeps ==
  ASSUME NEW raw \in Seq(RawLines), ContextLines \in Nat
  PROVE  /\ Collapse(raw) \in Seq(ShownLines)
         /\ Cardinality(Edits(Collapse(raw))) = Cardinality(Changed(raw))
         /\ AddsIn(Collapse(raw)) = AddsIn(raw) /\ DelsIn(Collapse(raw)) = DelsIn(raw)
         /\ (Collapse(raw) = <<>>) <=> (Changed(raw) = {})
<1> DEFINE n == Len(raw)
           changed == {k \in DOMAIN raw : raw[k].kind # "ctx"}
           keep == {k \in DOMAIN raw : \E c \in changed : k \in (c - ContextLines)..(c + ContextLines)}
           ss == [k \in DOMAIN raw |-> IF k \notin keep THEN <<>>
                                       ELSE IF k - 1 \in keep THEN <<raw[k]>> ELSE <<Sep, raw[k]>>]
           c == Collapse(raw)
<1>1. n \in Nat /\ DOMAIN raw = 1..n /\ \A k \in 1..n : raw[k] \in RawLines
  OBVIOUS
<1>2. c = FlattenSeq(ss) /\ changed = Changed(raw)
  BY DEF Collapse, Changed
<1>3. changed \subseteq keep /\ (changed = {} => keep = {})
  <2>1. ASSUME NEW k \in changed PROVE k \in (k - ContextLines)..(k + ContextLines)
    <3>1. k \in Nat
      BY <1>1
    <3>2. QED
      BY <3>1
  <2>2. QED
    BY <2>1
<1>4. ASSUME NEW k \in 1..n
      PROVE  /\ ss[k] \in {<<raw[k]>>, <<Sep, raw[k]>>} \/ (ss[k] = <<>> /\ raw[k].kind = "ctx")
             /\ changed = {} => ss[k] = <<>>
  <2>1. k \notin keep => raw[k].kind = "ctx"
    BY <1>1, <1>3
  <2> HIDE DEF keep, changed
  <2>2. ss[k] = IF k \notin keep THEN <<>> ELSE IF k - 1 \in keep THEN <<raw[k]>> ELSE <<Sep, raw[k]>>
    BY <1>1
  <2> HIDE DEF ss
  <2>3. QED
    BY <1>3, <2>1, <2>2
<1>5. DOMAIN ss = 1..n
  BY <1>1
<1>6. ss = [k \in 1..n |-> ss[k]]
  BY <1>1
<1> HIDE DEF ss, keep, changed, c
<1>7. ASSUME NEW k \in 1..n
      PROVE  /\ ss[k] \in Seq(ShownLines) /\ EditCount(ss[k]) = IF raw[k].kind = "ctx" THEN 0 ELSE 1
             /\ AddsIn(ss[k]) = {x \in {raw[k]} : x.kind = "add"}
             /\ DelsIn(ss[k]) = {x \in {raw[k]} : x.kind = "del"}
  <2> DEFINE l == raw[k]
             s == ss[k]
  <2>1. l \in RawLines /\ (s \in {<<l>>, <<Sep, l>>} \/ (s = <<>> /\ l.kind = "ctx"))
    BY <1>1, <1>4
  <2> HIDE DEF l, s
  <2>2. /\ s \in Seq(ShownLines) /\ EditCount(s) = IF l.kind = "ctx" THEN 0 ELSE 1
        /\ AddsIn(s) = {x \in {l} : x.kind = "add"} /\ DelsIn(s) = {x \in {l} : x.kind = "del"}
    BY <2>1, OneLineShown
  <2>3. QED
    BY <2>2 DEF l, s
<1>8. ss \in [1..n -> Seq(ShownLines)]
  BY <1>6, <1>7
<1>9. PICK flat \in [0..n -> Seq(ShownLines)] : Grows(flat, n, ss)
  BY <1>1, <1>8, FlatParts
<1> DEFINE S == {k \in 0..n : Same(flat[k], raw, k)}
<1>10. 0 \in S
  <2>1. flat[0] = <<>> /\ 0 \in 0..n
    BY <1>1, <1>9 DEF Grows
  <2> DEFINE f == flat[0]
  <2>2. ToSet(f) = {} /\ Edits(f) = {} /\ Len(f) = 0 /\ f = <<>>
    BY <2>1 DEF ToSet, Edits
  <2> HIDE DEF f
  <2>3. EditCount(f) = 0 /\ First(Changed(raw), 0) = 0
    BY <2>2, FirstType DEF EditCount
  <2>4. {raw[x] : x \in 1..0} = {}
    OBVIOUS
  <2>5. AddsIn(f) = {} /\ DelsIn(f) = {}
    BY <2>2 DEF AddsIn, DelsIn
  <2>6. Same(f, raw, 0)
    BY <2>2, <2>3, <2>4, <2>5 DEF Same
  <2>7. QED
    BY <2>1, <2>6 DEF f
<1>11. ASSUME NEW k \in 0..(n - 1), k \in S PROVE k + 1 \in S
  <2>1. k + 1 \in 1..n /\ k + 1 \in 0..n /\ (k + 1) - 1 = k /\ k \in Nat /\ k \in 0..n
    BY <1>1
  <2> DEFINE f == flat[k]  s == ss[k + 1]  g == flat[k + 1]  l == raw[k + 1]
  <2>2. g = f \o s /\ f \in Seq(ShownLines) /\ s \in Seq(ShownLines) /\ Same(f, raw, k)
    <3>1. flat[k + 1] = flat[(k + 1) - 1] \o ss[k + 1]
      BY <1>9, <2>1 DEF Grows
    <3>2. flat[k] \in Seq(ShownLines) /\ ss[k + 1] \in Seq(ShownLines)
      BY <1>7, <2>1
    <3>3. QED
      BY <1>11, <2>1, <3>1, <3>2
  <2>3. /\ EditCount(s) = IF l.kind = "ctx" THEN 0 ELSE 1
        /\ AddsIn(s) = {x \in {l} : x.kind = "add"} /\ DelsIn(s) = {x \in {l} : x.kind = "del"}
        /\ changed = {} => s = <<>>
    BY <1>4, <1>7, <2>1
  <2>4. k + 1 \in Changed(raw) <=> l.kind # "ctx"
    BY <1>1, <2>1 DEF Changed
  <2>5. {raw[x] : x \in 1..(k + 1)} = {raw[x] : x \in 1..k} \cup {l}
    <3>1. 1..(k + 1) = (1..k) \cup {k + 1}
      BY <2>1
    <3>2. QED
      BY <3>1
  <2> HIDE DEF f, s, g, l
  <2>6. /\ EditCount(g) = EditCount(f) + EditCount(s)
        /\ AddsIn(g) = AddsIn(f) \cup AddsIn(s) /\ DelsIn(g) = DelsIn(f) \cup DelsIn(s)
    BY <2>2, EditsJoined
  <2>7. First(Changed(raw), k + 1) = First(Changed(raw), k) + IF l.kind = "ctx" THEN 0 ELSE 1
    BY <2>1, <2>4, FirstStep
  <2>8. EditCount(g) = First(Changed(raw), k + 1)
    BY <2>2, <2>3, <2>6, <2>7 DEF Same
  <2>9. Changed(raw) = {} => g = <<>>
    <3>1. Changed(raw) = {} => f = <<>> /\ s = <<>>
      BY <1>2, <2>2, <2>3 DEF Same
    <3>2. QED
      BY <2>2, <3>1
  <2>10. /\ AddsIn(g) = {x \in {raw[y] : y \in 1..(k + 1)} : x.kind = "add"}
         /\ DelsIn(g) = {x \in {raw[y] : y \in 1..(k + 1)} : x.kind = "del"}
    BY <2>2, <2>3, <2>5, <2>6 DEF Same
  <2>11. Same(g, raw, k + 1)
    BY <2>8, <2>9, <2>10 DEF Same
  <2>12. QED
    BY <2>1, <2>11 DEF g
<1>12. n \in S
  <2> HIDE DEF S
  <2>1. \A k \in 0..n : k \in S
    BY <1>1, <1>10, <1>11, Induct
  <2>2. QED
    BY <1>1, <2>1
<1>13. c = flat[n] /\ c \in Seq(ShownLines) /\ Same(c, raw, n)
  <2>1. c = flat[n] /\ n \in 0..n
    BY <1>1, <1>2, <1>9 DEF Grows
  <2>2. QED
    BY <1>12, <2>1
<1>14. Cardinality(Edits(c)) = EditCount(c) /\ Cardinality(Changed(raw)) = First(Changed(raw), n)
  <2>1. Edits(c) \in SUBSET (1..Len(c)) /\ Len(c) \in Nat /\ Changed(raw) \in SUBSET (1..n)
    BY <1>1, <1>13 DEF Edits, Changed
  <2>2. First(Edits(c), Len(c)) = Cardinality(Edits(c))
    BY <2>1, SubsetOfRange
  <2>3. First(Changed(raw), n) = Cardinality(Changed(raw))
    BY <1>1, <2>1, SubsetOfRange
  <2>4. QED
    BY <2>2, <2>3 DEF EditCount
<1>15. Cardinality(Edits(c)) = Cardinality(Changed(raw))
  BY <1>13, <1>14 DEF Same
<1>16. c = <<>> => Changed(raw) = {}
  <2>1. SUFFICES ASSUME c = <<>> PROVE Changed(raw) = {}
    OBVIOUS
  <2>2. Edits(c) = {}
    BY <2>1 DEF Edits
  <2>3. Cardinality(Changed(raw)) = 0
    BY <1>15, <2>2, FS_EmptySet
  <2>4. IsFiniteSet(Changed(raw))
    <3>1. Changed(raw) \in SUBSET (1..n)
      BY <1>1 DEF Changed
    <3>2. QED
      BY <1>1, <3>1, SubsetOfRange
  <2>5. QED
    BY <2>3, <2>4, FS_EmptySet
<1>17. AddsIn(c) = AddsIn(raw) /\ DelsIn(c) = DelsIn(raw)
  <2>1. ToSet(raw) = {raw[x] : x \in 1..n}
    BY <1>1 DEF ToSet
  <2>2. QED
    BY <1>13, <2>1 DEF Same, AddsIn, DelsIn
<1>18. QED
  BY <1>13, <1>15, <1>16, <1>17 DEF Same, c

---------------------------------------------------------------------------
(* Applied to the base, the lines make the other text.                     *)

Added(b, M) == {Add(x, b[x]) : x \in M}
LEMMA OneEach ==
  ASSUME NEW b, NEW M, IsFiniteSet(M)
  PROVE  Cardinality(Added(b, M)) = Cardinality(M)
<1> DEFINE T == {Add(x, b[x]) : x \in M}
           f == [x \in M |-> Add(x, b[x])]
<1>1. f \in [M -> T] /\ \A x \in M : f[x] = Add(x, b[x]) /\ f[x].newLine = x
  BY DEF Add
<1>2. \A x, y \in M : f[x] = f[y] => x = y
  <2> TAKE x, y \in M
  <2> HIDE DEF f
  <2>1. QED
    BY <1>1
<1>3. \A t \in T : \E x \in M : f[x] = t
  OBVIOUS
<1> HIDE DEF f, T
<1>4. f \in Bijection(M, T)
  BY <1>1, <1>2, <1>3 DEF Bijection, Injection, Surjection, IsInjective
<1>5. ExistsBijection(M, T)
  BY <1>4 DEF ExistsBijection
<1>6. Cardinality(T) = Cardinality(M)
  BY <1>5, FS_Bijection
<1>7. QED
  BY <1>6 DEF Added, T

\* Of the first k numbers, some are of a set and the others are not.
LEMMA TheOthers ==
  ASSUME NEW n \in Nat, NEW N \in SUBSET (1..n)
  PROVE  \A k \in 0..n : First(N, k) + First((1..n) \ N, k) = k
<1> DEFINE A == (1..n) \ N
           S == {k \in 0..n : First(N, k) + First(A, k) = k}
<1>1. 0 \in S
  BY FirstType
<1>2. ASSUME NEW k \in 0..(n - 1), k \in S PROVE k + 1 \in S
  <2>1. k \in Nat /\ k + 1 \in 1..n /\ k + 1 \in 0..n
    OBVIOUS
  <2>2. k + 1 \in A <=> ~(k + 1 \in N)
    BY <2>1
  <2> HIDE DEF A
  <2> DEFINE x == First(N, k)  y == First(A, k)  u == First(N, k + 1)  v == First(A, k + 1)
  <2>3. /\ u = x + (IF k + 1 \in N THEN 1 ELSE 0) /\ v = y + (IF k + 1 \in A THEN 1 ELSE 0)
        /\ x \in Nat /\ y \in Nat /\ x + y = k
    BY <1>2, <2>1, FirstStep, FirstType
  <2> HIDE DEF x, y, u, v
  <2>4. u + v = k + 1
    BY <2>1, <2>2, <2>3
  <2>5. QED
    BY <2>1, <2>4 DEF u, v
<1>3. \A k \in 0..n : k \in S
  <2> HIDE DEF S
  <2> QED
    BY <1>1, <1>2, Induct
<1>4. QED
  BY <1>3

LEMMA LinesMakeText ==
  ASSUME NEW old \in Seq(Line), NEW new \in Seq(Line), NEW lines, NEW D, NEW N,
         D \in SUBSET (1..Len(old)), N \in SUBSET (1..Len(new)),
         AddsIn(lines) = {Add(x, new[x]) : x \in N}, DelsIn(lines) = {Del(x, old[x]) : x \in D},
         Pick(old, (1..Len(old)) \ D) = Pick(new, (1..Len(new)) \ N)
  PROVE  Apply(old, lines) = new
<1> DEFINE shown == ToSet(lines)
           adds == {l \in shown : l.kind = "add"}
           drops == {l.oldLine : l \in {x \in shown : x.kind = "del"}}
           left == Pick(old, DOMAIN old \ drops)
           total == Len(left) + Cardinality(adds)
           Before(j) == Cardinality({l \in adds : l.newLine < j})
           n == Len(new)
           A == (1..n) \ N
<1>1. n \in Nat /\ DOMAIN old = 1..Len(old) /\ N \in SUBSET (1..n) /\ A \in SUBSET (1..n)
  OBVIOUS
<1>2. adds = {Add(x, new[x]) : x \in N}
  BY DEF AddsIn
<1>3. drops = D
  <2>1. {x \in shown : x.kind = "del"} = {Del(x, old[x]) : x \in D}
    BY DEF DelsIn
  <2>2. \A x : Del(x, old[x]).oldLine = x
    BY DEF Del
  <2> DEFINE dels == {x \in shown : x.kind = "del"}
  <2>3. drops = {l.oldLine : l \in dels}
    OBVIOUS
  <2>4. dels = {Del(x, old[x]) : x \in D}
    BY <2>1
  <2> HIDE DEF dels, drops, shown
  <2>5. \A x \in D : x \in drops
    <3> TAKE x \in D
    <3>1. Del(x, old[x]) \in dels /\ Del(x, old[x]).oldLine = x
      BY <2>2, <2>4
    <3>2. QED
      BY <2>3, <3>1
  <2>6. \A x \in drops : x \in D
    BY <2>2, <2>3, <2>4
  <2>7. QED
    BY <2>5, <2>6
<1> DEFINE value == [j \in 1..total |-> IF \E l \in adds : l.newLine = j
                                      THEN (CHOOSE l \in adds : l.newLine = j).text
                                      ELSE left[j - Before(j)]]
<1>4. Apply(old, lines) = value
  BY DEF Apply
<1>5. left = Pick(new, A)
  BY <1>1, <1>3
<1> HIDE DEF shown, drops, left, adds
<1>6. Cardinality(adds) = Cardinality(N) /\ Cardinality(N) \in Nat /\ Cardinality(A) \in Nat
  <2>1. IsFiniteSet(N) /\ Cardinality(N) \in Nat /\ Cardinality(A) \in Nat
    BY <1>1, SubsetOfRange
  <2>2. Cardinality(Added(new, N)) = Cardinality(N)
    BY <2>1, OneEach
  <2>3. QED
    BY <1>2, <2>1, <2>2 DEF Added
<1>7. Len(left) = Cardinality(A) /\ \A j \in A : left[First(A, j)] = new[j]
  BY <1>1, <1>5, PickNth
<1>8. \A k \in 0..n : First(N, k) + First(A, k) = k
  BY <1>1, TheOthers
<1>9. total = n
  <2>1. First(N, n) = Cardinality(N) /\ First(A, n) = Cardinality(A)
    <3> HIDE DEF A
    <3>1. QED
      BY <1>1, SubsetOfRange
  <2>2. n \in 0..n
    BY <1>1
  <2>3. Cardinality(N) + Cardinality(A) = n
    BY <1>8, <2>1, <2>2
  <2>4. QED
    BY <1>6, <1>7, <2>3
<1>10. \A x : Add(x, new[x]).newLine = x /\ Add(x, new[x]).text = new[x]
  BY DEF Add
<1>11. ASSUME NEW j \in 1..n PROVE value[j] = new[j]
  <2>1. value[j] = IF \E l \in adds : l.newLine = j
                   THEN (CHOOSE l \in adds : l.newLine = j).text ELSE left[j - Before(j)]
    BY <1>9
  <2>2. CASE j \in N
    <3>1. Add(j, new[j]) \in adds
      BY <1>2, <2>2
    <3>2. \A l \in adds : l.newLine = j => l.text = new[j]
      BY <1>2, <1>10
    <3>3. \E l \in adds : l.newLine = j
      BY <1>10, <3>1
    <3>4. (CHOOSE l \in adds : l.newLine = j).text = new[j]
      BY <3>2, <3>3
    <3>5. QED
      BY <2>1, <3>3, <3>4
  <2>3. CASE j \notin N
    <3>1. ~\E l \in adds : l.newLine = j
      BY <1>2, <1>10, <2>3
    <3>2. Before(j) = First(N, j - 1)
      <4> DEFINE M == N \cap (1..(j - 1))
      <4>1. \A x \in N : x < j <=> x \in M
        <5> TAKE x \in N
        <5>1. x \in 1..n /\ j \in 1..n
          BY <1>1
        <5>2. QED
          BY <5>1
      <4>2. M \subseteq N
        OBVIOUS
      <4> HIDE DEF M
      <4>3. {l \in adds : l.newLine < j} = {Add(x, new[x]) : x \in M}
        BY <1>2, <1>10, <4>1, <4>2
      <4>4. IsFiniteSet(M)
        <5>1. IsFiniteSet(N)
          BY <1>1, SubsetOfRange
        <5>2. QED
          BY <4>2, <5>1, FS_Subset
      <4>5. Before(j) = Cardinality(M)
        <5>1. Cardinality(Added(new, M)) = Cardinality(M)
          BY <4>4, OneEach
        <5>2. QED
          BY <4>3, <5>1 DEF Added
      <4>6. QED
        BY <4>5 DEF First, M
    <3>3. j - Before(j) = First(A, j)
      <4>1. j \in 0..n /\ j - 1 \in Nat /\ (j - 1) + 1 = j
        BY <1>1
      <4>2. First(N, (j - 1) + 1) = First(N, j - 1) + IF (j - 1) + 1 \in N THEN 1 ELSE 0
        BY <4>1, FirstStep
      <4>3. First(N, j - 1) \in Nat /\ First(A, j) \in Nat
        BY <4>1, FirstType
      <4>4. First(N, j) = First(N, j - 1)
        BY <2>3, <4>1, <4>2, <4>3
      <4>5. First(N, j) + First(A, j) = j
        BY <1>8, <4>1
      <4> DEFINE x == First(N, j - 1)  y == First(A, j)
      <4>6. x + y = j /\ x \in Nat /\ y \in Nat /\ Before(j) = x
        BY <3>2, <4>3, <4>4, <4>5
      <4> HIDE DEF x, y, Before
      <4>7. j - Before(j) = y
        BY <4>6
      <4>8. QED
        BY <4>7 DEF y
    <3>4. j \in A
      BY <2>3
    <3>5. QED
      BY <1>7, <2>1, <3>1, <3>3, <3>4
  <2>4. QED
    BY <2>2, <2>3
<1>12. value = [j \in 1..n |-> value[j]] /\ new = [j \in 1..n |-> new[j]]
  <2>1. value = [j \in 1..n |-> value[j]]
    BY <1>9
  <2>2. new = [j \in 1..n |-> new[j]]
    OBVIOUS
  <2>3. QED
    BY <2>1, <2>2
<1> HIDE DEF value
<1>13. value = new
  BY <1>11, <1>12
<1>14. QED
  BY <1>4, <1>13 DEF value

LEMMA NotCut ==
  ASSUME NEW t \in Seq(Line), Len(t) <= MaxDiffLines, MaxDiffLines \in Nat
  PROVE  Cut(t) = t
<1>1. (IF Len(t) < MaxDiffLines THEN Len(t) ELSE MaxDiffLines) = Len(t) /\ Len(t) \in Nat
  OBVIOUS
<1>2. Cut(t) = SubSeq(t, 1, Len(t))
  BY <1>1 DEF Cut
<1>3. SubSeq(t, 1, Len(t)) = t
  OBVIOUS
<1>4. QED
  BY <1>2, <1>3

LEMMA DiffOfTexts ==
  ASSUME NEW old \in Seq(Line), NEW new \in Seq(Line),
         Len(old) <= MaxDiffLines, Len(new) <= MaxDiffLines
  PROVE  /\ Apply(old, ComputeLineDiff(old, new)) = new
         /\ Cardinality(Edits(ComputeLineDiff(old, new))) = Len(old) + Len(new) - 2 * LongestCommon(old, new)
         /\ (ComputeLineDiff(old, new) = <<>>) <=> (old = new)
<1> DEFINE m == Len(old)
           n == Len(new)
           k == LongestCommon(old, new)
           raw == Backtrack(old, new)
           lines == ComputeLineDiff(old, new)
<1>1. m \in Nat /\ n \in Nat /\ ContextLines \in Nat /\ MaxDiffLines \in Nat
  BY DiffAssumption
<1>2. lines = Collapse(raw)
  BY <1>1, NotCut DEF ComputeLineDiff
<1>3. /\ raw \in Seq(RawLines) /\ k \in Nat /\ Way(raw, old, new, m, n, k)
      /\ \A A \in SUBSET (1..m), B \in SUBSET (1..n) : Pick(old, A) = Pick(new, B) => Cardinality(A) <= k
  BY WayBack
<1> HIDE DEF m, n, k, raw, lines
<1>4. /\ Cardinality(Edits(lines)) = Cardinality(Changed(raw))
      /\ AddsIn(lines) = AddsIn(raw) /\ DelsIn(lines) = DelsIn(raw)
      /\ (lines = <<>>) <=> (Changed(raw) = {})
  BY <1>1, <1>2, <1>3, CollapseKeeps
<1>5. PICK D, N : Found(raw, old, new, m, n, k, D, N)
  BY <1>3 DEF Way
<1>6. /\ D \in SUBSET (1..m) /\ N \in SUBSET (1..n)
      /\ AddsIn(lines) = {Add(x, new[x]) : x \in N} /\ DelsIn(lines) = {Del(x, old[x]) : x \in D}
      /\ Pick(old, (1..m) \ D) = Pick(new, (1..n) \ N)
      /\ Cardinality(Changed(raw)) = m + n - 2 * k
  BY <1>4, <1>5 DEF Found
<1>7. Apply(old, lines) = new
  BY <1>6, LinesMakeText DEF m, n
<1>8. lines = <<>> => old = new
  <2>1. SUFFICES ASSUME lines = <<>> PROVE old = new
    OBVIOUS
  <2>2. AddsIn(lines) = {} /\ DelsIn(lines) = {}
    BY <2>1 DEF AddsIn, DelsIn, ToSet
  <2>3. (1..m) \ D = 1..m /\ (1..n) \ N = 1..n
    <3>1. {Add(x, new[x]) : x \in N} = {} /\ {Del(x, old[x]) : x \in D} = {}
      BY <1>6, <2>2
    <3>2. N = {}
      BY <3>1
    <3>3. D = {}
      BY <3>1
    <3>4. QED
      BY <3>2, <3>3
  <2>4. Pick(old, 1..m) = Pick(new, 1..n)
    BY <1>6, <2>3
  <2>5. Pick(old, 1..m) = old
    BY PickAll DEF m
  <2>6. Pick(new, 1..n) = new
    BY PickAll DEF n
  <2>7. QED
    BY <2>4, <2>5, <2>6
<1>9. old = new => lines = <<>>
  <2>1. SUFFICES ASSUME old = new PROVE lines = <<>>
    OBVIOUS
  <2>2. m = n /\ Cardinality(1..m) = m
    <3>1. m = n
      BY <2>1 DEF m, n
    <3>2. Cardinality(1..m) = m
      BY <1>1, RangeSize
    <3>3. QED
      BY <3>1, <3>2
  <2>3. m <= k
    BY <1>3, <2>1, <2>2
  <2>4. IsFiniteSet(Changed(raw))
    <3>1. Changed(raw) \in SUBSET (1..Len(raw)) /\ Len(raw) \in Nat
      BY <1>3 DEF Changed
    <3>2. QED
      BY <3>1, SubsetOfRange
  <2>5. Cardinality(Changed(raw)) \in Nat
    BY <2>4, FS_CardinalityType
  <2> DEFINE c == Cardinality(Changed(raw))
  <2>6. c = m + n - 2 * k /\ c \in Nat
    BY <1>6, <2>5
  <2> HIDE DEF c
  <2>7. c = 0
    BY <1>1, <1>3, <2>2, <2>3, <2>6
  <2>8. Changed(raw) = {}
    BY <2>4, <2>7, FS_EmptySet DEF c
  <2>9. QED
    BY <1>4, <2>8
<1>10. QED
  BY <1>4, <1>6, <1>7, <1>8, <1>9 DEF m, n, k, lines

FilesOf == [Names -> FileStates]
BrowserTypes ==
  /\ project \in FilesOf /\ version \in FilesOf /\ previous \in FilesOf
  /\ browser = Closed \/ browser \in [open : {TRUE}, selectedFile : Names,
       viewMode : {"source", "diff-current", "diff-prev"},
       files : FilesOf, prevFiles : FilesOf, currentFiles : FilesOf]

LEMMA FileStatesAre ==
  /\ \A t \in Seq(Line) : Present(t) \in FileStates
  /\ Absent \in FileStates /\ NoFiles \in FilesOf
  /\ \A f \in FileStates : (f.absent \in BOOLEAN /\ (~f.absent => f = Present(f.text) /\ f.text \in Seq(Line)))
<1>1. Absent \in FileStates
  BY DEF FileStates
<1>2. NoFiles \in FilesOf
  BY <1>1 DEF NoFiles, FilesOf
<1>3. \A t \in Seq(Line) : Present(t) \in FileStates
  BY DEF Present, FileStates
<1>4. ASSUME NEW f \in FileStates
      PROVE  f.absent \in BOOLEAN /\ (~f.absent => f = Present(f.text) /\ f.text \in Seq(Line))
  <2>1. CASE f = Absent
    BY <2>1 DEF Absent
  <2>2. CASE f \in [absent : {FALSE}, text : Seq(Line)]
    BY <2>2 DEF Present
  <2>3. QED
    BY <2>1, <2>2 DEF FileStates
<1>5. QED
  BY <1>1, <1>2, <1>3, <1>4

LEMMA BrowserTyped == BrowserSpec => []BrowserTypes
<1>1. BrowserInit => BrowserTypes
  BY DiffAssumption DEF BrowserInit, BrowserTypes, FilesOf
<1>2. BrowserTypes /\ [BrowserNext]_browserVars => BrowserTypes'
  <2> SUFFICES ASSUME BrowserTypes, [BrowserNext]_browserVars PROVE BrowserTypes'
    OBVIOUS
  <2> USE DEF BrowserTypes
  <2>1. CASE BrowseFiles
    <3>1. \A failed : [m \in Names |-> IF m \in failed THEN Present(<<>>) ELSE project[m]] \in FilesOf
      <4>1. <<>> \in Seq(Line)
        OBVIOUS
      <4>2. Present(<<>>) \in FileStates
        BY <4>1, FileStatesAre
      <4>3. QED
        BY <4>2 DEF FilesOf
    <3>2. PICK failed \in SUBSET {n \in Names : Has(project, n)}, prev \in {previous, NoFiles},
                  n \in {m \in Names : Has(version, m)} :
            browser' = [open |-> TRUE, selectedFile |-> n, viewMode |-> "diff-current",
                        files |-> version, prevFiles |-> prev,
                        currentFiles |-> [m \in Names |->
                          IF m \in failed THEN Present(<<>>) ELSE project[m]]]
      BY <2>1 DEF BrowseFiles
    <3> DEFINE current == [m \in Names |-> IF m \in failed THEN Present(<<>>) ELSE project[m]]
    <3>3. n \in Names /\ prev \in FilesOf /\ version \in FilesOf /\ current \in FilesOf
      BY <3>1, FileStatesAre
    <3>4. browser' = [open |-> TRUE, selectedFile |-> n, viewMode |-> "diff-current",
                      files |-> version, prevFiles |-> prev, currentFiles |-> current]
      BY <3>2
    <3> HIDE DEF current
    <3>5. UNCHANGED <<project, version, previous>>
      BY <2>1 DEF BrowseFiles
    <3>6. QED
      BY <3>3, <3>4, <3>5
  <2>2. CASE CloseBrowser
    BY <2>2 DEF CloseBrowser
  <2>3. ASSUME NEW mode \in {"source", "diff-current", "diff-prev"}, SetViewMode(mode)
        PROVE  BrowserTypes'
    BY <2>3 DEF SetViewMode, Closed
  <2>4. ASSUME NEW n \in Names, ChooseFile(n) PROVE BrowserTypes'
    BY <2>4 DEF ChooseFile, Closed
  <2>5. CASE UNCHANGED browserVars
    BY <2>5 DEF browserVars
  <2>6. QED
    BY <2>1, <2>2, <2>3, <2>4, <2>5 DEF BrowserNext
<1>3. QED
  BY <1>1, <1>2, PTL DEF BrowserSpec

(* The comparison of two texts of any length that are not cut turns the    *)
(* base into the version, with as few changes as there can be, and is      *)
(* empty exactly when they are the same: computeLineDiff (table, way back, *)
(* context) and computeFileDiff.                                           *)
THEOREM DiffsAreFaithful == BrowserSpec => []DiffIsFaithful
<1>1. BrowserTypes => DiffIsFaithful
  <2> SUFFICES ASSUME BrowserTypes, browser.open, browser.viewMode # "source"
               PROVE  LET n == browser.selectedFile
                          old == Content(DiffBase, n)
                          new == Content(browser.files, n)
                          panel == Panel
                          changes == {k \in DOMAIN panel.lines : panel.lines[k].kind \in {"add", "del"}}
                      IN  (Len(old) <= MaxDiffLines /\ Len(new) <= MaxDiffLines) =>
                            /\ Apply(old, panel.lines) = new
                            /\ Cardinality(changes) = Len(old) + Len(new) - 2 * LongestCommon(old, new)
                            /\ (panel.shows = "lines") = (old # new)
                            /\ panel.shows = "no differences" => DiffBase[n].absent /\ browser.files[n].absent
                            /\ panel.shows \in {"added", "deleted"} => DiffBase[n].absent # browser.files[n].absent
    BY DEF DiffIsFaithful
  <2> DEFINE n == browser.selectedFile
             old == Content(DiffBase, n)
             new == Content(browser.files, n)
             lines == ComputeLineDiff(old, new)
             status == FileDiff(DiffBase, browser.files, n)
  <2> SUFFICES ASSUME Len(old) <= MaxDiffLines, Len(new) <= MaxDiffLines
               PROVE  /\ Apply(old, Panel.lines) = new
                      /\ Cardinality(Edits(Panel.lines)) = Len(old) + Len(new) - 2 * LongestCommon(old, new)
                      /\ (Panel.shows = "lines") = (old # new)
                      /\ Panel.shows = "no differences" => DiffBase[n].absent /\ browser.files[n].absent
                      /\ Panel.shows \in {"added", "deleted"} => DiffBase[n].absent # browser.files[n].absent
    BY DEF Edits
  <2>1. n \in Names /\ DiffBase \in FilesOf /\ browser.files \in FilesOf
    <3>1. browser \in [open : {TRUE}, selectedFile : Names,
            viewMode : {"source", "diff-current", "diff-prev"},
            files : FilesOf, prevFiles : FilesOf, currentFiles : FilesOf]
      <4>1. Closed.open = FALSE
        BY DEF Closed
      <4>2. browser # Closed
        BY <4>1
      <4>3. QED
        BY <4>2 DEF BrowserTypes
    <3>2. /\ browser.selectedFile \in Names /\ browser.files \in FilesOf
          /\ browser.prevFiles \in FilesOf /\ browser.currentFiles \in FilesOf
      BY <3>1
    <3>3. QED
      BY <3>2 DEF DiffBase
  <2>2. DiffBase[n] \in FileStates /\ browser.files[n] \in FileStates
    BY <2>1 DEF FilesOf
  <2> DEFINE f == DiffBase[n]
             g == browser.files[n]
  <2>3. /\ f.absent \in BOOLEAN /\ (~f.absent => f = Present(f.text) /\ f.text \in Seq(Line))
        /\ g.absent \in BOOLEAN /\ (~g.absent => g = Present(g.text) /\ g.text \in Seq(Line))
    BY <2>2, FileStatesAre
  <2>4. old = (IF f.absent THEN <<>> ELSE f.text) /\ new = IF g.absent THEN <<>> ELSE g.text
    BY DEF Content, Has
  <2>5. old \in Seq(Line) /\ new \in Seq(Line)
    <3>1. <<>> \in Seq(Line)
      OBVIOUS
    <3> HIDE DEF f, g, old, new
    <3>2. QED
      BY <2>3, <2>4, <3>1
  <2>6. /\ Apply(old, lines) = new
        /\ Cardinality(Edits(lines)) = Len(old) + Len(new) - 2 * LongestCommon(old, new)
        /\ (lines = <<>>) <=> (old = new)
    <3> HIDE DEF old, new
    <3>1. QED
      BY <2>5, DiffOfTexts
  <2>7. status = CASE ~g.absent /\ f.absent -> "added"
                   [] g.absent /\ ~f.absent -> "deleted"
                   [] g.absent /\ f.absent -> "not listed"
                   [] OTHER -> IF f # g THEN "modified" ELSE "unchanged"
    BY DEF FileDiff, Has
  <2>8. Panel = CASE status = "unchanged" -> [shows |-> "no changes", lines |-> <<>>]
                  [] status # "unchanged" /\ lines = <<>> ->
                       [shows |-> IF status \in {"added", "deleted"} THEN status ELSE "no differences", lines |-> <<>>]
                  [] OTHER -> [shows |-> "lines", lines |-> lines]
    <3> HIDE DEF lines, status, n
    <3>1. QED
      BY DEF Panel, lines, status, n, old, new
  <2> HIDE DEF f, g, old, new, lines, status, n
  <2>9. status = "unchanged" => old = new
    BY <2>3, <2>4, <2>7
  <2>10. f.absent = g.absent /\ old = new /\ status # "unchanged" => f.absent /\ status = "not listed"
    BY <2>3, <2>4, <2>7
  <2>11. status \in {"added", "deleted"} => f.absent # g.absent
    BY <2>3, <2>7
  <2>12. status \in {"added", "deleted", "not listed", "modified", "unchanged"}
    BY <2>3, <2>7
  <2>13. f.absent # g.absent => status \in {"added", "deleted"}
    BY <2>3, <2>7
  <2>14. CASE status = "unchanged"
    <3>1. Panel.shows = "no changes" /\ Panel.lines = <<>> /\ lines = <<>>
      BY <2>6, <2>8, <2>9, <2>14
    <3>2. QED
      BY <2>6, <2>9, <2>14, <3>1
  <2>15. CASE status # "unchanged" /\ lines = <<>>
    <3>1. /\ Panel.shows = (IF status \in {"added", "deleted"} THEN status ELSE "no differences")
          /\ Panel.lines = lines
      BY <2>8, <2>15
    <3>2. old = new /\ Panel.shows # "lines"
      BY <2>6, <2>15, <3>1
    <3>3. Panel.shows = "no differences" => f.absent /\ g.absent
      BY <2>3, <2>10, <2>13, <2>15, <3>1, <3>2
    <3>4. Panel.shows \in {"added", "deleted"} => f.absent # g.absent
      BY <2>11, <3>1
    <3>5. QED
      BY <2>6, <3>1, <3>2, <3>3, <3>4 DEF f, g
  <2>16. CASE status # "unchanged" /\ lines # <<>>
    <3>1. Panel.shows = "lines" /\ Panel.lines = lines
      BY <2>8, <2>16
    <3>2. QED
      BY <2>6, <2>16, <3>1
  <2>17. QED
    BY <2>14, <2>15, <2>16
<1>2. QED
  BY <1>1, BrowserTyped, PTL

---------------------------------------------------------------------------
(* The tools side by side.                                                 *)

(* Whichever tool a behaviour plays in, it is a behaviour of each of them; *)
(* of the version browser, whose files stand still otherwise, if it plays  *)
(* in that.                                                                *)
LEMMA ToolsKeepTheirRules ==
  MCSpec => /\ SpellSpec /\ TextSpec /\ FilesSpec /\ SessionSpec /\ SyncSpec
            /\ tool = "browser" => BrowserSpec
<1> DEFINE vars == <<tool, spellVars, textVars, browserVars, fileVars, sessionVars, syncVars>>
<1>1. MCInit => /\ SpellInit /\ TextInit /\ FilesInit /\ SessionInit /\ SyncInit
                /\ tool = "browser" => BrowserInit
  BY DEF MCInit
<1>2. [MCNext]_vars => [SpellNext]_spellVars
  BY DEF MCNext
<1>3. [MCNext]_vars => [FilesNext]_fileVars
  BY DEF MCNext
<1>4. [MCNext]_vars => [SessionNext]_sessionVars
  BY DEF MCNext
<1>5. [MCNext]_vars => [SyncNext]_syncVars
  BY DEF MCNext
<1>6. [MCNext]_vars => [TextNext]_textVars
  BY DEF MCNext
<1>7. [MCNext]_vars => [BrowserNext]_browserVars
  BY DEF MCNext
<1>8. QED
  BY <1>1, <1>2, <1>3, <1>4, <1>5, <1>6, <1>7, PTL
  DEF MCSpec, SpellSpec, TextSpec, FilesSpec, SessionSpec, SyncSpec, BrowserSpec

(* In every state of every tool each variable has its type: the messages   *)
(* of the spell checker's worker, the calls of the file tree, the requests *)
(* that wait for a token, and what was parsed of the SyncTeX data.         *)
THEOREM ToolTypesCorrect == MCSpec => []TypesOK
<1>1. SpellTypeOK /\ FilesTypeOK /\ SessionTypeOK /\ SyncTypeOK => TypesOK
  BY DEF TypesOK
<1>2. QED
  BY <1>1, ToolsKeepTheirRules, SpellTypesCorrect, FileTypesCorrect, SessionTypesCorrect,
     ParserTypesCorrect, PTL
=============================================================================
