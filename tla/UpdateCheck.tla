----------------------------- MODULE UpdateCheck ----------------------------
(***************************************************************************)
(* The check for a newer release: checkUpdates in engine_windows.go, its   *)
(* goroutine with queryUpdates and the order of versions of                *)
(* update_check.go, and the click that opens the page or checks again.     *)
(*                                                                         *)
(* A tag is Garbled or a record of three numbers and of the suffix after   *)
(* the hyphen, in lower case and without blanks; where there is no suffix  *)
(* it is "none".  Of a suffix the model knows its place among strings,     *)
(* which of rc, beta and alpha it begins with, and the number that the     *)
(* rest of it is.                                                          *)
(***************************************************************************)
EXTENDS Integers, Sequences

CONSTANTS
  Suffix,     \* the suffixes that occur
  Opening,    \* Opening[s]: the member of Stages that s begins with, or "none"
  Rest,       \* Rest[s]: what follows that, as a number, or NoNumber
  Alphabet,   \* Alphabet[k]: the place of k in the order of strings
  Builds,     \* what appVersion can be
  Lists,      \* the lists of releases the server can answer with
  Garbled, NoNumber, NoUrl

Stages  == {"rc", "beta", "alpha"}
Kind    == Stages \cup Suffix

Version == [major : Nat, minor : Nat, patch : Nat, kind : Kind, num : Int]
Tag     == [major : Nat, minor : Nat, patch : Nat, suffix : Suffix]
Url     == STRING \cup {NoUrl}
Release == [tag : Tag \cup {Garbled}, draft : BOOLEAN, url : Url]

ASSUME KindAssumption ==
  /\ "none" \in Suffix /\ Opening \in [Suffix -> Stages \cup {"none"}] /\ Opening["none"] = "none"
  /\ \A s \in Stages \cap Suffix : Opening[s] = s
  /\ Rest \in [Suffix -> Int \cup {NoNumber}]
  /\ Alphabet \in [Kind -> Nat]
  /\ \A k, l \in Kind : Alphabet[k] = Alphabet[l] => k = l
  /\ NoNumber \notin Int /\ Garbled \notin Tag

ASSUME ReleaseAssumption ==
  Builds \subseteq Tag \cup {Garbled} /\ Lists \subseteq Seq(Release)

VARIABLES
  current,    \* appVersion
  checking,   \* e.updateChecking
  status,     \* e.updateStatus
  url,        \* e.updateURL
  query,      \* where the goroutine is
  list,       \* the answer it works on
  scan,       \* the entry it looks at next
  best,       \* the entry it holds for the best, or 0
  clicked     \* the window saw no URL at a click and is about to check

updVars == <<current, checking, status, url, query, list, scan, best, clicked>>

-----------------------------------------------------------------------------
(* Versions *)

\* parseSemVersion: the suffix is split only if it begins with a known stage, and a
\* rest that is missing or no number is 0, so that "rc-4" is rc with the number -4;
\* every other suffix is a kind as a whole, so that "dev7" has no number.
Parse(t) ==
  LET staged == Opening[t.suffix] # "none"
  IN [major |-> t.major, minor |-> t.minor, patch |-> t.patch,
      kind |-> IF staged THEN Opening[t.suffix] ELSE t.suffix,
      num |-> IF staged /\ Rest[t.suffix] # NoNumber THEN Rest[t.suffix] ELSE 0]

Stage(k) == IF k = "none" THEN 4 ELSE IF k = "rc" THEN 3 ELSE IF k = "beta" THEN 2
            ELSE IF k = "alpha" THEN 1 ELSE 0

Order(m, n) == IF m < n THEN -1 ELSE IF m > n THEN 1 ELSE 0

\* compareSemVersion
Compare(a, b) ==
  IF a.major # b.major THEN Order(a.major, b.major)
  ELSE IF a.minor # b.minor THEN Order(a.minor, b.minor)
  ELSE IF a.patch # b.patch THEN Order(a.patch, b.patch)
  ELSE IF a.kind = "none" /\ b.kind # "none" THEN 1
  ELSE IF a.kind # "none" /\ b.kind = "none" THEN -1
  ELSE IF a.kind = b.kind THEN Order(a.num, b.num)
  ELSE IF Stage(a.kind) # Stage(b.kind) THEN Order(Stage(a.kind), Stage(b.kind))
  ELSE Order(Alphabet[a.kind], Alphabet[b.kind])

\* What the order is meant to be: number by number, then the stages of a release
\* in the order of their development, kinds without a stage before them by their
\* names, then the number within the stage.
Before(a, b) ==
  LET key(v) == <<v.major, v.minor, v.patch, Stage(v.kind), Alphabet[v.kind], v.num>>
  IN \E k \in 1..6 : /\ key(a)[k] < key(b)[k]
                     /\ \A j \in 1..k-1 : key(a)[j] = key(b)[j]

-----------------------------------------------------------------------------
(* The check *)

\* MUTANT: the URL of the last answer stays while a new one is awaited.
CheckKeepsUrl ==
  IF checking THEN UNCHANGED <<current, checking, status, url, query, list, scan, best>>
  ELSE /\ checking' = TRUE /\ status' = "checking" /\ url' = url /\ query' = "ask"
       /\ UNCHANGED <<current, list, scan, best>>

CheckUpdates ==
  IF checking THEN UNCHANGED <<current, checking, status, url, query, list, scan, best>>
  ELSE /\ checking' = TRUE /\ status' = "checking" /\ url' = NoUrl /\ query' = "ask"
       /\ UNCHANGED <<current, list, scan, best>>

Conclude(s, u) ==
  /\ checking' = FALSE /\ status' = s /\ url' = u /\ query' = "none"
  /\ UNCHANGED <<current, list, scan, best, clicked>>

\* No answer within five seconds, or none that is a list of releases.
QueryFails ==
  /\ query = "ask"
  /\ Conclude(IF current = Garbled THEN "disabled" ELSE "unavailable", NoUrl)

QueryAnswers ==
  /\ query = "ask" /\ current # Garbled
  /\ list' \in Lists /\ scan' = 1 /\ best' = 0 /\ query' = "scan"
  /\ UNCHANGED <<current, checking, status, url, clicked>>

VersionOf(i) == Parse(list[i].tag)

\* A release that can be offered
Candidate(r) ==
  /\ ~r.draft /\ r.url # NoUrl /\ r.tag # Garbled
  /\ Compare(Parse(r.tag), Parse(current)) > 0

\* MUTANT: the first newer release is offered, as if the list were in order.
KeepFirst(i) == best = 0

Better(i) == best = 0 \/ Compare(VersionOf(i), VersionOf(best)) > 0

ScanRelease ==
  /\ query = "scan" /\ scan <= Len(list)
  /\ best' = IF Candidate(list[scan]) /\ Better(scan) THEN scan ELSE best
  /\ scan' = scan + 1
  /\ UNCHANGED <<current, checking, status, url, query, list, clicked>>

\* MUTANT: the check ends only if there is something to offer.
AnswerOnlyIfFound ==
  /\ query = "scan" /\ scan > Len(list) /\ best # 0
  /\ Conclude("available", list[best].url)

Answer ==
  /\ query = "scan" /\ scan > Len(list)
  /\ IF best = 0 THEN Conclude("up to date", NoUrl)
                 ELSE Conclude("available", list[best].url)

\* The click looks at a snapshot, and checks only after it.
ClickUpdate ==
  /\ ~clicked /\ url = NoUrl /\ clicked' = TRUE
  /\ UNCHANGED <<current, checking, status, url, query, list, scan, best>>

CheckAgain == clicked /\ clicked' = FALSE /\ CheckUpdates

Query == QueryFails \/ QueryAnswers \/ ScanRelease \/ Answer

UpdInit ==
  /\ current \in Builds
  /\ checking = FALSE /\ status = "checking" /\ url = NoUrl
  /\ query = "none" /\ list = <<>> /\ scan = 1 /\ best = 0 /\ clicked = FALSE

-----------------------------------------------------------------------------
UpdateTypeOK ==
  /\ current \in Builds /\ checking \in BOOLEAN /\ clicked \in BOOLEAN
  /\ status \in {"checking", "disabled", "unavailable", "up to date", "available"}
  /\ query \in {"none", "ask", "scan"} /\ (list = <<>> \/ list \in Lists)
  /\ scan \in 1..Len(list) + 1 /\ best \in 0..Len(list)

\* One check at a time: the flag is up exactly while a goroutine works, and while it
\* is, nothing of an older answer can be opened; afterwards a page can be opened
\* exactly if the status offers one (engine_windows.go:228-265).
UrlMatchesStatus ==
  /\ checking <=> query # "none"
  /\ url # NoUrl <=> status = "available"
  /\ checking => status = "checking"

Offered(i) == /\ ~list[i].draft /\ list[i].url # NoUrl /\ list[i].tag # Garbled
              /\ Before(Parse(current), VersionOf(i))

\* The page offered is that of the newest published release that is newer than the
\* program, whatever the order of the list; none is missed
\* (update_check.go:75-171, engine_windows.go:256-262).
BestRelease ==
  /\ status = "available" =>
       \E i \in 1..Len(list) : /\ Offered(i) /\ url = list[i].url
                               /\ \A j \in 1..Len(list) :
                                    Offered(j) => ~Before(VersionOf(i), VersionOf(j))
  /\ status = "up to date" => \A j \in 1..Len(list) : ~Offered(j)
=============================================================================
