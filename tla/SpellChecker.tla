----------------------------- MODULE SpellChecker -----------------------------
(***************************************************************************)
(* The spell checker of the editor: spellChecker.ts on the main thread and *)
(* spellCheckWorker.ts in a web worker, which exchange messages in both    *)
(* directions. A check is started by a timer that every change starts      *)
(* anew; a dictionary is fetched while the worker goes on with the next    *)
(* message. The marks the editor shows are those of the last answer.       *)
(*                                                                         *)
(* The text is the set of its words.                                       *)
(***************************************************************************)
EXTENDS Integers, Sequences, FiniteSets

CONSTANTS
  Vocabulary,      \* words the user writes
  Locales,         \* the languages to choose from
  Correct,         \* the words that are right, per language
  MaxMessages,     \* bound on the messages under way in one direction
  MaxLoads         \* bound on the dictionaries that are being fetched

NoLocale == "none"

ASSUME SpellAssumption ==
  /\ NoLocale \notin Locales /\ Locales # {}
  /\ Correct \in [Locales -> SUBSET Vocabulary]
  /\ MaxMessages \in Nat /\ MaxLoads \in Nat

VARIABLES
  text, spellLocale, spellEnabled,     \* the editor and its two controls
  importing,                           \* the language a lazy import was started with
  timer, marked,                       \* debounceTimer; the markers and their suggestions
  toWorker, toMain,
  checker, fetches, personalWords,     \* in the worker
  confused                             \* a load threw or overlapped a change of language

spellVars == <<text, spellLocale, spellEnabled, importing, timer, marked, toWorker, toMain,
               checker, fetches, personalWords, confused>>
workerVars == <<toWorker, checker, fetches, personalWords>>
controlVars == <<spellLocale, spellEnabled, importing>>

Running == spellEnabled /\ importing = NoLocale

SpellInit ==
  /\ text \in SUBSET Vocabulary /\ spellLocale \in Locales
  /\ spellEnabled = FALSE /\ importing = NoLocale
  /\ timer = FALSE /\ marked = {}
  /\ toWorker = <<>> /\ toMain = <<>>
  /\ checker = NoLocale /\ fetches = <<>> /\ personalWords = {}
  /\ confused = FALSE

Post(messages) ==
  /\ Len(toWorker \o messages) <= MaxMessages
  /\ toWorker' = toWorker \o messages
Load(locale) == [type |-> "load", locale |-> locale]
AddWord(word) == [type |-> "addWord", word |-> word]
Check(words) == [type |-> "check", words |-> words]

-----------------------------------------------------------------------------
(* The page: the check box, the language and the text.                     *)

(* The module is imported lazily. The check box is not touched again until *)
(* it is there; a second import would register a second checker.           *)
EnableSpell ==
  /\ ~spellEnabled
  /\ spellEnabled' = TRUE /\ importing' = spellLocale
  /\ UNCHANGED <<text, spellLocale, timer, marked, toMain, workerVars, confused>>

\* registerSpellChecker: a new worker, with the language of the click.
RegisterSpellChecker ==
  /\ importing # NoLocale
  /\ importing' = NoLocale
  /\ toWorker' = <<Load(importing)>> /\ timer' = TRUE
  /\ confused' = (importing # spellLocale)
  /\ UNCHANGED <<text, spellLocale, spellEnabled, marked, toMain, checker, fetches, personalWords>>

\* cleanup: timer and listeners go, the worker is terminated.
CleanupSpell ==
  /\ Running
  /\ spellEnabled' = FALSE
  /\ timer' = FALSE /\ marked' = {}
  /\ toWorker' = <<>> /\ toMain' = <<>>
  /\ checker' = NoLocale /\ fetches' = <<>> /\ personalWords' = {}
  /\ UNCHANGED <<text, spellLocale, importing, confused>>

Loading == fetches # <<>> \/ \E i \in DOMAIN toWorker : toWorker[i].type = "load"

\* setLocale: nobody is there to be told before the import is over.
SetLocale(locale) ==
  /\ locale # spellLocale /\ spellLocale' = locale
  /\ IF Running
     THEN /\ marked' = {}
          /\ Post(<<Load(locale)>>)
          /\ confused' = (confused \/ Loading)
     ELSE UNCHANGED <<marked, toWorker, confused>>
  /\ UNCHANGED <<text, spellEnabled, importing, timer, toMain, checker, fetches, personalWords>>

\* Mutant: the mark of a word that is deleted stays.
EditTextKeepsMarks(words) ==
  /\ words # text /\ text' = words
  /\ timer' = Running
  /\ UNCHANGED <<marked, controlVars, toMain, workerVars, confused>>
\* Words come and go; every change starts the timer anew.
EditText(words) ==
  /\ words # text /\ text' = words
  /\ timer' = Running
  /\ marked' = marked \cap words
  /\ UNCHANGED <<controlVars, toMain, workerVars, confused>>

(* Monaco asks for the fixes of a marked word; the word is sent to the     *)
(* personal dictionary whether or not the user then chooses to ignore it.  *)
ProvideCodeActions(word) ==
  /\ Running /\ word \in marked
  /\ Post(<<AddWord(word)>>)
  /\ UNCHANGED <<text, controlVars, timer, marked, toMain, checker, fetches, personalWords, confused>>

\* The timer fires: the words of the text as it is now are sent.
TimerFires ==
  /\ timer /\ timer' = FALSE
  /\ Post(<<Check(text)>>)
  /\ UNCHANGED <<text, controlVars, marked, toMain, checker, fetches, personalWords, confused>>

-----------------------------------------------------------------------------
(* The worker.                                                             *)

Reply(message) ==
  /\ Len(toMain) < MaxMessages
  /\ toMain' = Append(toMain, message)

Misspelt(words) ==
  IF checker = NoLocale THEN {} ELSE words \ (personalWords \cup Correct[checker])

\* Mutant: any dictionary will do.
WantedIsLoaded(locale) == checker # NoLocale
IsLoaded(locale) == checker = locale

(* A load of the dictionary that is there is answered at once; for another *)
(* it is fetched, and the worker goes on with the next message.            *)
HandleLoad ==
  /\ toWorker # <<>> /\ Head(toWorker).type = "load"
  /\ toWorker' = Tail(toWorker)
  /\ LET locale == Head(toWorker).locale IN
       IF IsLoaded(locale)
       THEN Reply([type |-> "loaded"]) /\ UNCHANGED fetches
       ELSE /\ Len(fetches) < MaxLoads
            /\ fetches' = Append(fetches, locale)
            /\ UNCHANGED toMain
  /\ UNCHANGED <<text, controlVars, timer, marked, checker, personalWords, confused>>

Without(s, i) == SubSeq(s, 1, i - 1) \o SubSeq(s, i + 1, Len(s))

(* A fetch is over, in any order: a new checker, none because a response   *)
(* was not ok, or an exception, and then "loaded" is never sent.           *)
FetchEnds(i) ==
  /\ fetches' = Without(fetches, i)
  /\ \/ /\ checker' = fetches[i]
        /\ Reply([type |-> "loaded"])
        /\ UNCHANGED confused
     \/ /\ Reply([type |-> "loaded"])
        /\ confused' = TRUE
        /\ UNCHANGED checker
     \/ /\ confused' = TRUE
        /\ UNCHANGED <<checker, toMain>>
  /\ UNCHANGED <<text, controlVars, timer, marked, toWorker, personalWords>>

HandleAddWord ==
  /\ toWorker # <<>> /\ Head(toWorker).type = "addWord"
  /\ toWorker' = Tail(toWorker)
  /\ personalWords' = personalWords \cup {Head(toWorker).word}
  /\ Reply([type |-> "wordAdded"])
  /\ UNCHANGED <<text, controlVars, timer, marked, checker, fetches, confused>>

HandleCheck ==
  /\ toWorker # <<>> /\ Head(toWorker).type = "check"
  /\ toWorker' = Tail(toWorker)
  /\ Reply([type |-> "result", words |-> Misspelt(Head(toWorker).words)])
  /\ UNCHANGED <<text, controlVars, timer, marked, checker, fetches, personalWords, confused>>

-----------------------------------------------------------------------------
(* Messages from the worker.                                               *)

(* "loaded" and "wordAdded" start the timer. A result becomes the markers, *)
(* whatever the text is now; those whose words are gone mark other text.   *)
MessageArrives ==
  /\ toMain # <<>> /\ toMain' = Tail(toMain)
  /\ IF Head(toMain).type = "result"
     THEN marked' = Head(toMain).words \cap text /\ UNCHANGED timer
     ELSE timer' = TRUE /\ UNCHANGED marked
  /\ UNCHANGED <<text, controlVars, workerVars, confused>>

SpellNext ==
  \/ EnableSpell \/ RegisterSpellChecker \/ CleanupSpell
  \/ \E locale \in Locales : SetLocale(locale)
  \/ \E words \in SUBSET Vocabulary : EditText(words)
  \/ \E word \in Vocabulary : ProvideCodeActions(word)
  \/ TimerFires
  \/ HandleLoad \/ HandleAddWord \/ HandleCheck
  \/ \E i \in DOMAIN fetches : FetchEnds(i)
  \/ MessageArrives

SpellSpec == SpellInit /\ [][SpellNext]_spellVars

-----------------------------------------------------------------------------
SpellTypeOK ==
  /\ text \subseteq Vocabulary /\ marked \subseteq text /\ personalWords \subseteq Vocabulary
  /\ spellLocale \in Locales /\ {importing, checker} \subseteq Locales \cup {NoLocale}
  /\ fetches \in Seq(Locales)
  /\ {spellEnabled, timer, confused} \subseteq BOOLEAN

Settled == Running /\ ~timer /\ toWorker = <<>> /\ toMain = <<>> /\ fetches = <<>>

(* When everything has been answered, exactly the words are marked that    *)
(* the dictionary of the language that is chosen does not know and that    *)
(* were not ignored, if no load failed and the language was not changed    *)
(* during a load. The code: results carry an id nobody compares, so it is  *)
(* the order of the messages and the timer that make the last one fit.     *)
MarksFit ==
  (Settled /\ ~confused) =>
    /\ checker = spellLocale
    /\ marked = text \ (personalWords \cup Correct[spellLocale])
=============================================================================
