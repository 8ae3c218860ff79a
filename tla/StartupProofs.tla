----------------------------- MODULE StartupProofs -----------------------------
(***************************************************************************)
(* Proofs about Startup for any environments and any parsers.              *)
(***************************************************************************)
EXTENDS Startup, SequenceTheorems, WellFoundedInduction, TLAPS

-----------------------------------------------------------------------------
(* Ends of sets of numbers, and of the texts cut with them.                *)

LEMMA LeastExists ==
  ASSUME NEW S \in SUBSET Nat, S # {}
  PROVE  Min(S) \in S /\ \A n \in S : Min(S) <= n
<1>1. \E m \in S : \A n \in S : ~(<<n, m>> \in OpToRel(<, Nat))
  BY NatLessThanWellFounded, WFMin
<1>2. PICK m \in S : \A n \in S : ~(<<n, m>> \in OpToRel(<, Nat))
  BY <1>1
<1>3. ASSUME NEW n \in S PROVE m <= n
  <2>1. ~(n < m)
    BY <1>2 DEF OpToRel
  <2>2. n \in Nat /\ m \in Nat
    OBVIOUS
  <2> QED
    BY <2>1, <2>2
<1>4. \E x \in S : \A y \in S : x <= y
  BY <1>3
<1> QED
  BY <1>4 DEF Min

LEMMA GreatestExists ==
  ASSUME NEW last \in Nat, NEW S \in SUBSET (1..last), S # {}
  PROVE  Max(S) \in S /\ \A n \in S : n <= Max(S)
<1> DEFINE distances == {last - n : n \in S}
<1>1. distances \in SUBSET Nat /\ distances # {}
  OBVIOUS
<1>2. PICK least \in distances : \A d \in distances : least <= d
  <2> HIDE DEF distances
  <2> QED
    BY <1>1, LeastExists
<1>3. PICK m \in S : least = last - m
  BY <1>2
<1>4. \A n \in S : last - m <= last - n
  BY <1>2, <1>3
<1>5. \E x \in S : \A y \in S : y <= x
  BY <1>3, <1>4
<1> QED
  BY <1>5 DEF Max

\* Trimming leaves text, ...
LEMMA TrimIsText ==
  ASSUME NEW S, NEW s \in Seq(S), NEW blank
  PROVE  Trim(s, blank) \in Seq(S)
<1> DEFINE kept == {i \in DOMAIN s : s[i] \notin blank}
<1>1. CASE kept = {}
  BY <1>1 DEF Trim
<1>2. CASE kept # {}
  <2>1. kept \in SUBSET Nat /\ kept \in SUBSET (1..Len(s)) /\ Len(s) \in Nat
    OBVIOUS
  <2>2. Min(kept) \in kept /\ Max(kept) \in kept
    <3> HIDE DEF kept
    <3> QED
      BY <1>2, <2>1, LeastExists, GreatestExists
  <2>3. /\ Min(kept) \in Int /\ Max(kept) \in Int
        /\ \A i \in Min(kept)..Max(kept) : s[i] \in S
    <3>1. Min(kept) \in 1..Len(s) /\ Max(kept) \in 1..Len(s)
      BY <2>1, <2>2
    <3> HIDE DEF kept
    <3> QED
      BY <3>1
  <2>4. SubSeq(s, Min(kept), Max(kept)) \in Seq(S)
    <3> HIDE DEF kept
    <3> QED
      BY <2>3, SubSeqProperties
  <2> QED
    BY <1>2, <2>4 DEF Trim
<1> QED
  BY <1>1, <1>2

\* ... which is empty only of a text of blanks, and starts with no blank.
LEMMA TrimStarts ==
  ASSUME NEW S, NEW s \in Seq(S), NEW blank
  PROVE  /\ (\E i \in DOMAIN s : s[i] \notin blank) => Trim(s, blank) # <<>>
         /\ Trim(s, blank) # <<>> => 1 \in DOMAIN Trim(s, blank) /\ Trim(s, blank)[1] \notin blank
<1> DEFINE kept == {i \in DOMAIN s : s[i] \notin blank}
<1>1. CASE kept = {}
  BY <1>1 DEF Trim
<1>2. CASE kept # {}
  <2>1. kept \in SUBSET Nat /\ kept \in SUBSET (1..Len(s)) /\ Len(s) \in Nat
    OBVIOUS
  <2>2. Min(kept) \in kept /\ Max(kept) \in kept /\ Min(kept) <= Max(kept)
    <3> HIDE DEF kept
    <3> QED
      BY <1>2, <2>1, LeastExists, GreatestExists
  <2>3. /\ 1 \in DOMAIN SubSeq(s, Min(kept), Max(kept))
        /\ SubSeq(s, Min(kept), Max(kept))[1] = s[Min(kept)]
        /\ SubSeq(s, Min(kept), Max(kept)) # <<>>
    BY <2>1, <2>2
  <2> QED
    BY <1>2, <2>2, <2>3 DEF Trim
<1> QED
  BY <1>1, <1>2

\* ... which is the text itself if nothing in it is blank.
LEMMA TrimUnblanked ==
  ASSUME NEW S, NEW s \in Seq(S), NEW blank, \A i \in DOMAIN s : s[i] \notin blank
  PROVE  Trim(s, blank) = s
<1> DEFINE kept == {i \in DOMAIN s : s[i] \notin blank}
<1>1. kept = 1..Len(s) /\ Len(s) \in Nat
  OBVIOUS
<1>2. CASE Len(s) = 0
  <2>1. kept = {} /\ s = <<>>
    BY <1>1, <1>2
  <2> QED
    BY <2>1 DEF Trim
<1>3. CASE Len(s) # 0
  <2>1. kept # {} /\ kept \in SUBSET Nat /\ 1 \in kept /\ Len(s) \in kept
    BY <1>1, <1>3
  <2>2. Min(kept) = 1 /\ Max(kept) = Len(s)
    BY <1>1, <1>3 DEF Min, Max
  <2>3. SubSeq(s, 1, Len(s)) = s
    OBVIOUS
  <2> HIDE DEF kept
  <2>4. Trim(s, blank) = IF kept = {} THEN <<>> ELSE SubSeq(s, Min(kept), Max(kept))
    BY DEF Trim, kept
  <2> QED
    BY <2>1, <2>2, <2>3, <2>4
<1> QED
  BY <1>2, <1>3

\* What TrimRight leaves of a path: a beginning of it which does not end in "/".
LEMMA TrimPathShape ==
  ASSUME NEW S, NEW path \in Seq(S)
  PROVE  \E n \in 0..Len(path) :
           /\ TrimPath(path) = SubSeq(path, 1, n)
           /\ Len(TrimPath(path)) = n
           /\ \A i \in 1..n : TrimPath(path)[i] = path[i]
           /\ n # 0 => path[n] # "/"
<1> DEFINE kept == {i \in DOMAIN path : path[i] # "/"}
<1>1. CASE kept = {}
  <2>1. SubSeq(path, 1, 0) = <<>> /\ TrimPath(path) = <<>> /\ 0 \in 0..Len(path)
    BY <1>1 DEF TrimPath
  <2> QED
    BY <2>1
<1>2. CASE kept # {}
  <2>1. kept \in SUBSET (1..Len(path)) /\ Len(path) \in Nat
    OBVIOUS
  <2>2. Max(kept) \in kept
    <3> HIDE DEF kept
    <3> QED
      BY <1>2, <2>1, GreatestExists
  <2>3. TrimPath(path) = SubSeq(path, 1, Max(kept))
    BY <1>2 DEF TrimPath
  <2>4. Max(kept) \in 1..Len(path) /\ path[Max(kept)] # "/"
    BY <2>2
  <2> HIDE DEF kept
  <2> QED
    BY <2>3, <2>4
<1> QED
  BY <1>1, <1>2

LEMMA TrimPathTwice ==
  ASSUME NEW S, NEW path \in Seq(S)
  PROVE  TrimPath(TrimPath(path)) = TrimPath(path)
<1>1. PICK n \in 0..Len(path) :
        /\ TrimPath(path) = SubSeq(path, 1, n)
        /\ Len(TrimPath(path)) = n
        /\ \A i \in 1..n : TrimPath(path)[i] = path[i]
        /\ n # 0 => path[n] # "/"
  BY TrimPathShape
<1> DEFINE short == TrimPath(path)
<1>2. short \in Seq(S) /\ Len(short) = n
  BY <1>1
<1>3. n # 0 => short[n] # "/"
  BY <1>1
<1> HIDE DEF short
<1>4. PICK m \in 0..n : TrimPath(short) = SubSeq(short, 1, m) /\ (m # 0 => short[m] # "/")
                         /\ Len(TrimPath(short)) = m
  BY <1>2, TrimPathShape
<1>5. CASE n = 0
  BY <1>2, <1>4, <1>5 DEF short
<1>6. CASE n # 0
  <2> DEFINE kept == {i \in DOMAIN short : short[i] # "/"}
  <2>1. n \in kept /\ kept \in SUBSET (1..n)
    BY <1>2, <1>3, <1>6
  <2>2. Max(kept) = n
    <3> HIDE DEF kept
    <3>1. n \in Nat /\ kept # {} /\ kept \in SUBSET (1..n)
      BY <2>1
    <3>2. Max(kept) \in 1..n /\ n <= Max(kept)
      BY <2>1, <3>1, GreatestExists
    <3> QED
      BY <3>1, <3>2
  <2>3. TrimPath(short) = SubSeq(short, 1, Max(kept))
    BY <2>1 DEF TrimPath
  <2>4. SubSeq(short, 1, n) = short
    BY <1>2
  <2> HIDE DEF kept
  <2> QED
    BY <2>2, <2>3, <2>4 DEF short
<1> QED
  BY <1>5, <1>6

\* A path that is nothing but slashes after its trailing ones went is empty.
LEMMA TrimmedPath ==
  ASSUME NEW S, NEW path \in Seq(S), \A i \in DOMAIN TrimPath(path) : TrimPath(path)[i] = "/"
  PROVE  TrimPath(path) = <<>>
<1> DEFINE kept == {i \in DOMAIN path : path[i] # "/"}
<1>1. CASE kept = {}
  BY <1>1 DEF TrimPath
<1>2. CASE kept # {}
  <2>1. kept \in SUBSET (1..Len(path)) /\ Len(path) \in Nat
    OBVIOUS
  <2>2. Max(kept) \in kept
    <3> HIDE DEF kept
    <3> QED
      BY <1>2, <2>1, GreatestExists
  <2>3. /\ Max(kept) \in DOMAIN SubSeq(path, 1, Max(kept))
        /\ SubSeq(path, 1, Max(kept))[Max(kept)] = path[Max(kept)]
    BY <2>1, <2>2
  <2> QED
    BY <1>2, <2>2, <2>3 DEF TrimPath
<1> QED
  BY <1>1, <1>2

-----------------------------------------------------------------------------
(* What a configuration that was accepted holds.                           *)

LEMMA TextIsText ==
  ASSUME NEW env \in ApiEnvironments \cup MlEnvironments, NEW key, NEW blank
  PROVE  Text(env, key, blank) \in Seq(STRING)
<1>1. CASE key \in DOMAIN env
  <2>1. env[key] \in Seq(STRING)
    BY <1>1, EnvironmentsAreTexts
  <2> QED
    BY <1>1, <2>1, TrimIsText DEF Text
<1>2. CASE key \notin DOMAIN env
  BY <1>2 DEF Text
<1> QED
  BY <1>1, <1>2

\* What a text parses to is acceptable if the fallback and the table's entry are.
LEMMA ParsedIn ==
  ASSUME NEW S, NEW text, NEW table, NEW fallback \in S, text = <<>> \/ table[text[1]] \in S
  PROVE  Parsed(text, table, fallback) \in S
BY DEF Parsed

LEMMA OneWord ==
  ASSUME NEW S, NEW word \in S
  PROVE  <<word>> \in Seq(S) /\ 1 \in DOMAIN <<word>> /\ <<word>>[1] = word
OBVIOUS

LEMMA DefaultPorts == 8080 \in Ports /\ 8090 \in Ports
BY DEF Ports

\* The port can be listened on and every timeout is positive.
LEMMA AcceptedValues ==
  ASSUME NEW env, Loads(env)
  PROVE  /\ Config(env).port \in Ports
         /\ DOMAIN Config(env).timeout = DOMAIN DefaultTimeout
         /\ \A key \in DOMAIN DefaultTimeout : Config(env).timeout[key] > 0
<1>1. Config(env).port \in Ports
  <2>1. IntOK(env, "SEARCH_API_PORT")
    BY DEF Loads
  <2>2. Config(env).port = IntValue(env, "SEARCH_API_PORT", 8080)
    BY DEF Config
  <2> DEFINE text == Text(env, "SEARCH_API_PORT", GoBlank)
  <2>3. text = <<>> \/ Atoi[text[1]] \in Ports
    BY <2>1 DEF IntOK
  <2>4. Config(env).port = Parsed(text, Atoi, 8080)
    BY <2>2 DEF IntValue
  <2> HIDE DEF text
  <2> QED
    BY <2>3, <2>4, DefaultPorts, ParsedIn
<1>2. \A key \in DOMAIN DefaultTimeout : DefaultTimeout[key] > 0
  BY DEF DefaultTimeout
<1>3. ASSUME NEW key \in DOMAIN DefaultTimeout
      PROVE  DurationValue(env, key, DefaultTimeout[key]) > 0
  <2>1. DurationOK(env, key)
    BY DEF Loads
  <2> DEFINE text == Text(env, key, GoBlank)
  <2>2. text = <<>> \/ ParseDuration[text[1]] > 0
    BY <2>1 DEF DurationOK
  <2>3. DurationValue(env, key, DefaultTimeout[key]) = Parsed(text, ParseDuration, DefaultTimeout[key])
    BY DEF DurationValue
  <2> HIDE DEF text
  <2> QED
    BY <1>2, <2>2, <2>3 DEF Parsed
<1>4. Config(env).timeout =
        [key \in DOMAIN DefaultTimeout |-> DurationValue(env, key, DefaultTimeout[key])]
  BY DEF Config
<1>5. DOMAIN Config(env).timeout = DOMAIN DefaultTimeout
  BY <1>4
<1>6. \A key \in DOMAIN DefaultTimeout : Config(env).timeout[key] > 0
  BY <1>3, <1>4
<1> QED
  BY <1>1, <1>5, <1>6

-----------------------------------------------------------------------------
(* The text a URL is written as says what was read.                        *)

\* The parts of a text put together as URL.String does.
LEMMA PartsOfText ==
  ASSUME NEW S, NEW o \in S, NEW e \in Seq(S), NEW q \in Seq(S),
         q = <<>> \/ q = <<"?">>, \A i \in DOMAIN e : e[i] \notin {"?", "#"}
  PROVE  LET w == <<o>> \o e \o q
         IN  /\ w \in Seq(S) /\ w # <<>> /\ w[1] = o
             /\ WrittenPath(w) = e /\ Rest(w) = q
             /\ \A i \in DOMAIN w : w[i] = o \/ (\E j \in DOMAIN e : w[i] = e[j]) \/ w[i] = "?"
<1> DEFINE w == <<o>> \o e \o q
<1>1. /\ w \in Seq(S) /\ Len(w) = 1 + Len(e) + Len(q)
      /\ Len(e) \in Nat /\ Len(q) \in {0, 1} /\ (Len(q) = 1 => q[1] = "?")
      /\ w[1] = o
  OBVIOUS
<1>2. \A i \in 1..Len(e) : w[i + 1] = e[i]
  OBVIOUS
<1>3. Len(q) = 1 => w[Len(e) + 2] = "?"
  <2>1. (<<o>> \o e) \in Seq(S) /\ Len(<<o>> \o e) = Len(e) + 1
    OBVIOUS
  <2> QED
    BY <1>1, <2>1
<1> HIDE DEF w
<1>4. \A i \in 2..(Len(e) + 1) : i \notin Marks(w)
  <2> SUFFICES ASSUME NEW i \in 2..(Len(e) + 1) PROVE w[i] \notin {"?", "#"}
    BY DEF Marks
  <2>1. i - 1 \in 1..Len(e) /\ (i - 1) + 1 = i
    BY <1>1
  <2>2. w[i] = e[i - 1]
    BY <1>2, <2>1
  <2> QED
    BY <2>1, <2>2
<1>5. PathEnd(w) = Len(e) + 1
  <2>1. CASE Len(q) = 0
    <3>1. Marks(w) = {}
      BY <1>1, <1>4, <2>1 DEF Marks
    <3> QED
      BY <1>1, <2>1, <3>1 DEF PathEnd
  <2>2. CASE Len(q) = 1
    <3>1. Len(e) + 2 \in Marks(w)
      BY <1>1, <1>3, <2>2 DEF Marks
    <3>2. Marks(w) \subseteq 2..(Len(e) + 2)
      BY <1>1, <2>2 DEF Marks
    <3>3. Marks(w) = {Len(e) + 2}
      BY <1>1, <1>4, <3>1, <3>2
    <3>4. Min(Marks(w)) = Len(e) + 2
      BY <1>1, <3>3 DEF Min
    <3> QED
      BY <1>1, <3>3, <3>4 DEF PathEnd
  <2> QED
    BY <1>1, <2>1, <2>2
<1>6. WrittenPath(w) = e
  <2>1. SubSeq(w, 2, Len(e) + 1) \in Seq(S) /\ Len(SubSeq(w, 2, Len(e) + 1)) = Len(e)
    BY <1>1, SubSeqProperties
  <2>2. \A i \in 1..Len(e) : SubSeq(w, 2, Len(e) + 1)[i] = e[i]
    BY <1>1, <1>2, SubSeqProperties
  <2> QED
    BY <1>5, <2>1, <2>2 DEF WrittenPath
<1>7. Rest(w) = q
  <2>1. PathEnd(w) + 1 = Len(e) + 2 /\ Len(w) = 1 + Len(e) + Len(q)
    BY <1>1, <1>5
  <2>2. /\ SubSeq(w, Len(e) + 2, Len(w)) \in Seq(S)
        /\ Len(SubSeq(w, Len(e) + 2, Len(w))) = Len(q)
    BY <1>1, SubSeqProperties
  <2>3. \A i \in 1..Len(q) : SubSeq(w, Len(e) + 2, Len(w))[i] = q[i]
    BY <1>1, <1>3, SubSeqProperties
  <2>4. Rest(w) = SubSeq(w, Len(e) + 2, Len(w))
    BY <2>1 DEF Rest
  <2> DEFINE last == SubSeq(w, Len(e) + 2, Len(w))
  <2>5. last \in Seq(S) /\ Len(last) = Len(q) /\ \A i \in 1..Len(q) : last[i] = q[i]
    BY <2>2, <2>3
  <2> HIDE DEF last
  <2>6. last = q
    BY <2>5
  <2> QED
    BY <2>4, <2>6 DEF last
<1>8. \A i \in DOMAIN w : w[i] = o \/ (\E j \in DOMAIN e : w[i] = e[j]) \/ w[i] = "?"
  <2> SUFFICES ASSUME NEW i \in 1..Len(w)
               PROVE  w[i] = o \/ (\E j \in DOMAIN e : w[i] = e[j]) \/ w[i] = "?"
    BY <1>1
  <2>1. i = 1 \/ i - 1 \in 1..Len(e) \/ (Len(q) = 1 /\ i = Len(e) + 2)
    <3>1. ASSUME NEW m \in Nat, NEW n \in {0, 1}, NEW k \in 1..(1 + m + n)
          PROVE  k = 1 \/ k - 1 \in 1..m \/ (n = 1 /\ k = m + 2)
      OBVIOUS
    <3>2. i \in 1..(1 + Len(e) + Len(q))
      BY <1>1
    <3> QED
      BY <1>1, <3>1, <3>2
  <2>2. i - 1 \in 1..Len(e) => i - 1 \in DOMAIN e /\ w[i] = e[i - 1]
    BY <1>1, <1>2
  <2> QED
    BY <1>1, <1>3, <2>1, <2>2
<1> QED
  BY <1>1, <1>6, <1>7, <1>8 DEF w

\* The path of an accepted URL as it is written, and decoded.
Clean(token) == token \notin {"?", "#", "odd_blank", "%zz"}
Plain(character) == character \notin {"%20", "%3F", "%2F", "#", "odd_blank", "%zz"}

\* The path of an accepted text holds no mark and nothing the parser refuses.
LEMMA PathOfText ==
  ASSUME NEW S, NEW text \in Seq(S), UrlOK(text)
  PROVE  /\ WrittenPath(text) \in Seq(S)
         /\ \A i \in DOMAIN WrittenPath(text) : Clean(WrittenPath(text)[i])
<1>1. Len(text) \in Nat /\ 1 <= Len(text)
  <2>1. text # <<>>
    BY DEF UrlOK
  <2> QED
    BY <2>1
<1>2. Marks(text) \in SUBSET Nat /\ Marks(text) \subseteq 2..Len(text)
  BY DEF Marks
<1>3. Marks(text) # {} => Min(Marks(text)) \in Marks(text) /\ \A n \in Marks(text) : Min(Marks(text)) <= n
  BY <1>2, LeastExists
<1>4. PathEnd(text) \in 1..Len(text) /\ \A i \in 2..PathEnd(text) : i \notin Marks(text)
  <2>1. CASE Marks(text) = {}
    BY <1>1, <2>1 DEF PathEnd
  <2>2. CASE Marks(text) # {}
    <3>1. PathEnd(text) = Min(Marks(text)) - 1 /\ Min(Marks(text)) \in 2..Len(text)
      BY <1>2, <1>3, <2>2 DEF PathEnd
    <3> QED
      BY <1>1, <1>3, <2>2, <3>1
  <2> QED
    BY <2>1, <2>2
<1>5. WrittenPath(text) \in Seq(S) /\ Len(WrittenPath(text)) = PathEnd(text) - 1
  BY <1>1, <1>4, SubSeqProperties DEF WrittenPath
<1>6. \A i \in 1..(PathEnd(text) - 1) : WrittenPath(text)[i] = text[i + 1]
  BY <1>1, <1>4, SubSeqProperties DEF WrittenPath
<1>7. ASSUME NEW i \in 1..(PathEnd(text) - 1) PROVE Clean(WrittenPath(text)[i])
  <2>1. i + 1 \in 2..PathEnd(text) /\ i + 1 \in DOMAIN text
    BY <1>1, <1>4
  <2>2. text[i + 1] \notin {"?", "#"}
    BY <1>1, <1>4, <2>1 DEF Marks
  <2>3. text[i + 1] \notin {"odd_blank", "%zz"}
    BY <2>1 DEF UrlOK
  <2> QED
    BY <1>6, <2>2, <2>3 DEF Clean
<1> QED
  BY <1>4, <1>5, <1>7

\* Decoding keeps its length and its first slash, and leaves no escape.
LEMMA DecodedPath ==
  ASSUME NEW S, NEW raw \in Seq(S), \A i \in DOMAIN raw : Clean(raw[i])
  PROVE  \E T : /\ Unescaped(raw) \in Seq(T) /\ Len(Unescaped(raw)) = Len(raw)
                /\ \A i \in 1..Len(raw) : Plain(Unescaped(raw)[i])
                /\ raw # <<>> /\ raw[1] = "/" => Unescaped(raw)[1] = "/"
<1> DEFINE T == {Unescape(raw[i]) : i \in DOMAIN raw}
<1>1. Unescaped(raw) = [i \in 1..Len(raw) |-> Unescape(raw[i])] /\ Len(raw) \in Nat
  BY DEF Unescaped
<1>2. Unescaped(raw) \in Seq(T) /\ Len(Unescaped(raw)) = Len(raw)
  BY <1>1
<1>3. ASSUME NEW token, Clean(token) PROVE Plain(Unescape(token))
  BY <1>3 DEF Clean, Plain, Unescape
<1>4. Unescape("/") = "/"
  BY DEF Unescape
<1> HIDE DEF T
<1>5. raw # <<>> => 1 \in 1..Len(raw)
  OBVIOUS
<1>6. \A i \in 1..Len(raw) : Plain(Unescaped(raw)[i])
  BY <1>1, <1>3
<1>7. raw # <<>> /\ raw[1] = "/" => Unescaped(raw)[1] = "/"
  BY <1>1, <1>4, <1>5
<1> QED
  BY <1>2, <1>6, <1>7

\* Encoding a decoded path and decoding it again gives it back.
LEMMA EscapedReadsBack ==
  ASSUME NEW T, NEW path \in Seq(T), \A i \in 1..Len(path) : Plain(path[i])
  PROVE  /\ \E U : Escaped(path) \in Seq(U)
         /\ Len(Escaped(path)) = Len(path)
         /\ \A i \in 1..Len(path) : Clean(Escaped(path)[i]) /\ Escaped(path)[i] # "blank"
         /\ Unescaped(Escaped(path)) = path
         /\ path # <<>> /\ path[1] = "/" => Escaped(path)[1] = "/"
<1> DEFINE U == {Escape(path[i]) : i \in DOMAIN path}
<1>1. Escaped(path) = [i \in 1..Len(path) |-> Escape(path[i])] /\ Len(path) \in Nat
  BY DEF Escaped
<1>2. Escaped(path) \in Seq(U) /\ Len(Escaped(path)) = Len(path)
  BY <1>1
<1>3. ASSUME NEW c, Plain(c)
      PROVE  Clean(Escape(c)) /\ Escape(c) # "blank" /\ Unescape(Escape(c)) = c
  BY <1>3 DEF Clean, Plain, Unescape, Escape
<1>4. Escape("/") = "/"
  BY DEF Escape
<1> HIDE DEF U
<1>5. Unescaped(Escaped(path)) = [i \in 1..Len(path) |-> Unescape(Escape(path[i]))]
  BY <1>1, <1>2 DEF Unescaped
<1>6. [i \in 1..Len(path) |-> Unescape(Escape(path[i]))] = [i \in 1..Len(path) |-> path[i]]
  BY <1>3
<1>7. path = [i \in 1..Len(path) |-> path[i]]
  OBVIOUS
<1>8. path # <<>> => 1 \in 1..Len(path)
  OBVIOUS
<1>9. \A i \in 1..Len(path) : Clean(Escaped(path)[i]) /\ Escaped(path)[i] # "blank"
  BY <1>1, <1>3
<1>10. path # <<>> /\ path[1] = "/" => Escaped(path)[1] = "/"
  BY <1>1, <1>4, <1>8
<1>11. Unescaped(Escaped(path)) = path
  BY <1>5, <1>6, <1>7
<1> QED
  BY <1>2, <1>9, <1>10, <1>11

\* The path URL.String writes needs no more encoding and decodes to the trimmed one.
LEMMA WrittenPathReadsBack ==
  ASSUME NEW S, NEW text \in Seq(S), UrlOK(text)
  PROVE  LET e == EscapedPath(WrittenPath(text), BaseUrl(text).path)
         IN  /\ \E U : e \in Seq(U)
             /\ \A i \in DOMAIN e : Clean(e[i]) /\ e[i] # "blank"
             /\ Unescaped(e) = BaseUrl(text).path
             /\ e # <<>> => e[1] = "/"
             /\ TrimPath(BaseUrl(text).path) = BaseUrl(text).path
<1> DEFINE raw == WrittenPath(text)
           decoded == Unescaped(raw)
           path == TrimPath(decoded)
           e == EscapedPath(raw, path)
<1>1. BaseUrl(text).path = path
  BY DEF BaseUrl
<1>2. /\ raw \in Seq(S) /\ \A i \in DOMAIN raw : Clean(raw[i])
      /\ raw # <<>> => raw[1] = "/"
  BY PathOfText DEF UrlOK
<1> HIDE DEF raw
<1>3. PICK T : /\ decoded \in Seq(T) /\ Len(decoded) = Len(raw)
               /\ \A i \in 1..Len(raw) : Plain(decoded[i])
               /\ raw # <<>> => decoded[1] = "/"
  BY <1>2, DecodedPath
<1> HIDE DEF decoded
<1>4. PICK n \in 0..Len(decoded) :
        /\ path = SubSeq(decoded, 1, n) /\ Len(path) = n
        /\ \A i \in 1..n : path[i] = decoded[i]
  BY <1>3, TrimPathShape
<1>5. /\ path \in Seq(T) /\ \A i \in 1..Len(path) : Plain(path[i])
      /\ path # <<>> => path[1] = "/"
  <2>1. path \in Seq(T)
    BY <1>3, <1>4
  <2>2. n \in Nat /\ n <= Len(raw) /\ Len(raw) \in Nat
    BY <1>2, <1>3, <1>4
  <2>3. path # <<>> => n # 0 /\ raw # <<>>
    BY <1>2, <1>4, <2>1, <2>2
  <2> QED
    BY <1>3, <1>4, <2>1, <2>2, <2>3
<1>6. TrimPath(path) = path
  BY <1>3, TrimPathTwice
<1> HIDE DEF path
<1>7. CASE decoded = path /\ \A i \in DOMAIN raw : raw[i] # "blank"
  <2>1. e = raw
    BY <1>7 DEF EscapedPath, decoded
  <2> HIDE DEF e
  <2> QED
    BY <1>1, <1>2, <1>6, <1>7, <2>1 DEF decoded, e, raw
<1>8. CASE ~(decoded = path /\ \A i \in DOMAIN raw : raw[i] # "blank")
  <2>1. e = Escaped(path)
    BY <1>8 DEF EscapedPath, decoded
  <2>2. /\ \E U : Escaped(path) \in Seq(U)
        /\ Len(Escaped(path)) = Len(path)
        /\ \A i \in 1..Len(path) : Clean(Escaped(path)[i]) /\ Escaped(path)[i] # "blank"
        /\ Unescaped(Escaped(path)) = path
        /\ path # <<>> /\ path[1] = "/" => Escaped(path)[1] = "/"
    BY <1>5, EscapedReadsBack
  <2>3. DOMAIN Escaped(path) = 1..Len(path) /\ (Escaped(path) # <<>> => path # <<>>)
    BY <1>5, <2>2
  <2> HIDE DEF e
  <2> QED
    BY <1>1, <1>5, <1>6, <2>1, <2>2, <2>3 DEF e, raw
<1> QED
  BY <1>7, <1>8

\* What urlValue returns passes the same checks again, needs no trimming and
\* names the same service.
LEMMA UrlReadsBack ==
  ASSUME NEW S, NEW text \in Seq(S), UrlOK(text)
  PROVE  /\ Trim(UrlValue(text), GoBlank) = UrlValue(text)
         /\ UrlOK(UrlValue(text))
         /\ BaseUrl(UrlValue(text)) = BaseUrl(text)
<1> DEFINE e == EscapedPath(WrittenPath(text), BaseUrl(text).path)
           url == Origins[text[1]]
           o == url.written
           q == IF Rest(text) \in {<<"?">>, <<"?", "#">>} THEN <<"?">> ELSE <<>>
           w == <<o>> \o e \o q
<1>1. w = UrlValue(text)
  BY DEF UrlValue, BaseUrl
<1>2. PICK U : e \in Seq(U)
  BY WrittenPathReadsBack
<1>3. /\ \A i \in DOMAIN e : Clean(e[i]) /\ e[i] # "blank"
      /\ Unescaped(e) = BaseUrl(text).path
      /\ e # <<>> => e[1] = "/"
      /\ TrimPath(BaseUrl(text).path) = BaseUrl(text).path
  BY WrittenPathReadsBack
<1>4. /\ text[1] \in DOMAIN Origins /\ o \in DOMAIN Origins /\ Origins[o] = url
      /\ o \notin {"blank", "odd_blank", "%zz"}
  BY OriginsAreRead DEF UrlOK
<1>5. q \in {<<>>, <<"?">>}
  OBVIOUS
<1> DEFINE S2 == U \cup {o, "?"}
<1>6. o \in S2 /\ e \in Seq(S2) /\ q \in Seq(S2)
  <2>1. "?" \in S2
    OBVIOUS
  <2>2. <<"?">> \in Seq(S2) /\ <<>> \in Seq(S2)
    <3> HIDE DEF S2
    <3> QED
      BY <2>1, OneWord
  <2>3. U \subseteq S2
    OBVIOUS
  <2>4. e \in Seq(S2)
    <3> HIDE DEF S2, e
    <3> QED
      BY <1>2, <2>3
  <2> QED
    BY <1>5, <2>2, <2>4
<1> HIDE DEF e, q, o, S2
<1>7. /\ w \in Seq(S2) /\ w # <<>> /\ w[1] = o
      /\ WrittenPath(w) = e /\ Rest(w) = q
      /\ \A i \in DOMAIN w : w[i] = o \/ (\E j \in DOMAIN e : w[i] = e[j]) \/ w[i] = "?"
  BY <1>3, <1>5, <1>6, PartsOfText DEF Clean
<1> HIDE DEF w
<1>8. \A i \in DOMAIN w : w[i] \notin {"blank", "odd_blank", "%zz"}
  BY <1>3, <1>4, <1>7 DEF Clean
<1>9. Trim(w, GoBlank) = w
  BY <1>7, <1>8, TrimUnblanked DEF GoBlank
<1>10. UrlOK(w)
  <2>1. url.scheme \in {"http", "https"} /\ url.host # NoHost /\ ~url.user
    BY DEF UrlOK
  <2>2. Rest(w) \in {<<>>, <<"?">>, <<"#">>, <<"?", "#">>}
    BY <1>5, <1>7
  <2> HIDE DEF url
  <2> QED
    BY <1>3, <1>4, <1>7, <1>8, <2>1, <2>2 DEF UrlOK
<1>11. BaseUrl(w) = BaseUrl(text)
  <2>1. BaseUrl(w) = [origin |-> url, path |-> TrimPath(BaseUrl(text).path)]
    BY <1>3, <1>4, <1>7 DEF BaseUrl
  <2>2. BaseUrl(text).origin = url /\ BaseUrl(text) = [origin |-> url, path |-> BaseUrl(text).path]
    BY DEF BaseUrl
  <2> QED
    BY <1>3, <2>1, <2>2
<1> QED
  BY <1>1, <1>9, <1>10, <1>11

LEMMA ApiUrlIsText ==
  ASSUME NEW env \in ApiEnvironments
  PROVE  \E S : StringValue(env, "ML_SERVICE_URL", DefaultUrl) \in Seq(S)
<1>1. Text(env, "ML_SERVICE_URL", GoBlank) \in Seq(STRING)
  BY TextIsText
<1>2. \E S : DefaultUrl \in Seq(S)
  <2>1. ASSUME NEW word PROVE <<word>> \in Seq({word})
    BY OneWord
  <2> QED
    BY <2>1 DEF DefaultUrl
<1> QED
  BY <1>1, <1>2 DEF StringValue

\* The client is built, for the service the environment names, whose path does
\* not end in a slash.
LEMMA AcceptedBuilds ==
  ASSUME NEW env \in ApiEnvironments, Loads(env)
  PROVE  /\ ClientBuilds(Config(env))
         /\ NewClient(Config(env)) = BaseUrl(StringValue(env, "ML_SERVICE_URL", DefaultUrl))
         /\ \E S : \E path \in Seq(S) : NewClient(Config(env)).path = TrimPath(path)
<1> DEFINE text == StringValue(env, "ML_SERVICE_URL", DefaultUrl)
<1>1. PICK S : text \in Seq(S)
  BY ApiUrlIsText
<1>2. UrlOK(text) /\ Config(env).url = UrlValue(text)
  BY DEF Loads, Config
<1>3. Config(env).timeout["ML_SERVICE_TIMEOUT"] > 0
  BY AcceptedValues DEF DefaultTimeout
<1> HIDE DEF text
<1>4. /\ Trim(UrlValue(text), GoBlank) = UrlValue(text) /\ UrlOK(UrlValue(text))
      /\ BaseUrl(UrlValue(text)) = BaseUrl(text)
  BY <1>1, <1>2, UrlReadsBack
<1>5. ClientBuilds(Config(env))
  BY <1>2, <1>3, <1>4 DEF ClientBuilds
<1>6. NewClient(Config(env)) = BaseUrl(text)
  BY <1>2, <1>4 DEF NewClient
<1>7. \E T : \E path \in Seq(T) : BaseUrl(text).path = TrimPath(path)
  <2>1. WrittenPath(text) \in Seq(S) /\ \A i \in DOMAIN WrittenPath(text) : Clean(WrittenPath(text)[i])
    BY <1>1, <1>2, PathOfText
  <2>2. \E T : Unescaped(WrittenPath(text)) \in Seq(T)
    BY <2>1, DecodedPath
  <2> QED
    BY <2>2 DEF BaseUrl
<1> QED
  BY <1>5, <1>6, <1>7 DEF text

\* The metadata of an ML service passes the search API's validation: what
\* Python's strip leaves of a name is no blank of Go's either.
LEMMA InfoIsValid ==
  ASSUME NEW env \in MlEnvironments PROVE ValidModelInfo(ModelInfo(Settings(env)))
<1> DEFINE name == Environment(env)
           text == Text(env, "GROUNDEDSEARCH_ENV", PyBlank)
<1>1. ASSUME NEW word, word # "blank" PROVE Trim(<<word>>, GoBlank) # <<>>
  <2>1. /\ <<word>> \in Seq({word})
        /\ 1 \in DOMAIN <<word>> /\ <<word>>[1] = word
    BY OneWord
  <2> QED
    BY <1>1, <2>1, TrimStarts DEF GoBlank
<1>2. Trim(name, GoBlank) # <<>>
  <2>1. text \in Seq(STRING)
    BY TextIsText
  <2>2. text # <<>> => 1 \in DOMAIN text /\ text[1] \notin PyBlank
    BY EnvironmentsAreTexts, TrimStarts DEF Text
  <2>3. CASE text = <<>>
    <3>1. name = <<"development">>
      BY <2>3 DEF Environment
    <3> QED
      BY <1>1, <3>1
  <2>4. CASE text # <<>>
    <3>1. name = text
      BY <2>4 DEF Environment
    <3> HIDE DEF name, text
    <3>2. name \in Seq(STRING) /\ 1 \in DOMAIN name /\ name[1] \notin GoBlank
      BY <2>1, <2>2, <2>4, <3>1 DEF GoBlank, PyBlank
    <3> QED
      BY <3>2, TrimStarts
  <2> QED
    BY <2>3, <2>4
<1> HIDE DEF name
<1>3. ModelInfo(Settings(env)).environment = name
  BY DEF ModelInfo, Settings, name
<1>4. Trim(<<"0.1.0">>, GoBlank) # <<>> /\ Trim(<<"3.10.5">>, GoBlank) # <<>>
  BY <1>1
<1> QED
  BY <1>2, <1>3, <1>4 DEF ValidModelInfo, ModelInfo

(* The defaults of the two services fit each other: with nothing set both   *)
(* start, and the search API looks for the ML service where it listens.     *)
(* What url.Parse makes of the default URL is a hypothesis.                 *)
THEOREM DefaultsMeet ==
  ASSUME NEW env \in ApiEnvironments, DOMAIN env = {}, NEW default \in DOMAIN Origins,
         DefaultUrl = <<default>>,
         Origins[default] = [scheme |-> "http", host |-> "localhost", port |-> 8090,
                             user |-> FALSE, written |-> default]
  PROVE  /\ Loads(env) /\ MlLoads(env)
         /\ NewClient(Config(env)).origin.scheme = "http"
         /\ NewClient(Config(env)).origin.port = Settings(env).port
         /\ NewClient(Config(env)).path = <<>>
<1>1. \A key, blank : Text(env, key, blank) = <<>>
  BY DEF Text
<1> DEFINE text == StringValue(env, "ML_SERVICE_URL", DefaultUrl)
<1>2. /\ text = <<default>> /\ text # <<>> /\ Len(text) = 1 /\ text[1] = default
      /\ text \in Seq({default})
  <2>1. text = <<default>>
    BY <1>1 DEF StringValue
  <2>2. <<default>> # <<>> /\ Len(<<default>>) = 1 /\ <<default>>[1] = default
    OBVIOUS
  <2>3. <<default>> \in Seq({default})
    OBVIOUS
  <2> HIDE DEF text
  <2> QED
    BY <2>1, <2>2, <2>3
<1> HIDE DEF text
<1>3. Marks(text) = {} /\ PathEnd(text) = 1
  BY <1>2 DEF Marks, PathEnd
<1>4. WrittenPath(text) = <<>> /\ Rest(text) = <<>>
  BY <1>2, <1>3 DEF WrittenPath, Rest
<1>5. Loads(env)
  <2>1. UrlOK(text)
    <3>1. \A i \in DOMAIN text : text[i] \notin {"odd_blank", "%zz"}
      BY <1>2, OriginsAreRead
    <3>2. LET url == Origins[text[1]]
          IN  url.scheme \in {"http", "https"} /\ url.host # NoHost /\ ~url.user
      <4>1. Origins[text[1]] = Origins[default]
        BY <1>2
      <4>2. "localhost" # NoHost
        BY DEF NoHost
      <4> QED
        BY <4>1, <4>2
    <3>3. text[1] \in DOMAIN Origins
      BY <1>2
    <3> QED
      <4>1. WrittenPath(text) # <<>> => WrittenPath(text)[1] = "/"
        BY <1>4
      <4>2. Rest(text) \in {<<>>, <<"?">>, <<"#">>, <<"?", "#">>}
        BY <1>4
      <4>3. text # <<>>
        BY <1>2
      <4> QED
        BY <3>1, <3>2, <3>3, <4>1, <4>2, <4>3 DEF UrlOK
  <2> QED
    BY <1>1, <2>1 DEF Loads, IntOK, DurationOK, LevelOK, text
<1>6. MlLoads(env)
  BY <1>1 DEF MlLoads
<1>7. NewClient(Config(env)) = [origin |-> Origins[default], path |-> <<>>]
  <2>1. NewClient(Config(env)) = BaseUrl(text)
    BY <1>5, AcceptedBuilds DEF text
  <2>2. Unescaped(<<>>) = <<>> /\ TrimPath(<<>>) = <<>>
    BY DEF Unescaped, TrimPath
  <2>3. Origins[text[1]] = Origins[default]
    BY <1>2
  <2>4. BaseUrl(text) = [origin |-> Origins[text[1]], path |-> TrimPath(Unescaped(WrittenPath(text)))]
    BY DEF BaseUrl
  <2>5. TrimPath(Unescaped(WrittenPath(text))) = <<>>
    BY <1>4, <2>2
  <2> QED
    BY <2>1, <2>3, <2>4, <2>5
<1>8. Settings(env).port = 8090
  BY <1>1 DEF Settings, Parsed
<1> QED
  BY <1>5, <1>6, <1>7, <1>8

-----------------------------------------------------------------------------
(* The inductive invariant: what runs was started with an environment that  *)
(* was accepted, and has its configuration.                                 *)

StartInv ==
  /\ api \in {"down", "refused", "failed", "up"}
  /\ ml \in {"down", "refused", "up"}
  /\ reply \in {"none", "ready", "invalid_response", "unavailable"}
  /\ api = "up" => \E env \in ApiEnvironments :
                     Loads(env) /\ config = Config(env) /\ client = NewClient(config)
  /\ ml = "up" => \E env \in MlEnvironments : MlLoads(env) /\ settings = Settings(env)

LEMMA InitInv == Init => StartInv
BY DEF Init, StartInv

LEMMA StepInv == StartInv /\ [Next]_vars => StartInv'
<1> SUFFICES ASSUME StartInv, [Next]_vars PROVE StartInv'
  OBVIOUS
<1>1. ASSUME NEW env \in ApiEnvironments, StartApi(env) PROVE StartInv'
  <2>1. api' \in ApiOutcomes(env)
    BY <1>1 DEF StartApi
  <2>2. api' = "up" => Loads(env) /\ config' = Config(env) /\ client' = NewClient(config')
    BY <1>1 DEF StartApi, ApiOutcomes
  <2>3. api' \in {"refused", "failed", "up"}
    BY <2>1, AcceptedBuilds DEF ApiOutcomes
  <2> QED
    BY <1>1, <2>2, <2>3 DEF StartApi, StartInv
<1>2. ASSUME NEW env \in MlEnvironments, StartMl(env) PROVE StartInv'
  BY <1>2 DEF StartMl, StartInv
<1>3. CASE StopApi
  BY <1>3 DEF StopApi, StartInv
<1>4. CASE StopMl
  BY <1>4 DEF StopMl, StartInv
<1>5. CASE Probe
  BY <1>5 DEF Probe, StartInv
<1>6. CASE UNCHANGED vars
  BY <1>6 DEF vars, StartInv
<1> QED
  BY <1>1, <1>2, <1>3, <1>4, <1>5, <1>6 DEF Next

LEMMA Invariant == Spec => []StartInv
BY InitInv, StepInv, PTL DEF Spec

-----------------------------------------------------------------------------
(* A running search API has a port it can listen on and only positive       *)
(* timeouts; a running ML service has such a port.                          *)
THEOREM TypeCorrect == Spec => []TypeOK
<1>1. StartInv => TypeOK
  <2> SUFFICES ASSUME StartInv PROVE TypeOK
    OBVIOUS
  <2>1. api = "up" => /\ config.port \in Ports
                      /\ \A key \in DOMAIN config.timeout : config.timeout[key] > 0
    BY AcceptedValues DEF StartInv
  <2>2. ml = "up" => settings.port \in Ports
    <3> SUFFICES ASSUME NEW env, MlLoads(env) PROVE Settings(env).port \in Ports
      BY DEF StartInv
    <3> DEFINE text == Text(env, "ML_SERVICE_PORT", PyBlank)
    <3>1. text = <<>> \/ PyInt[text[1]] \in Ports
      BY DEF MlLoads
    <3>2. Settings(env).port = Parsed(text, PyInt, 8090)
      BY DEF Settings
    <3> HIDE DEF text
    <3> QED
      BY <3>1, <3>2, DefaultPorts, ParsedIn
  <2> QED
    BY <2>1, <2>2 DEF StartInv, TypeOK
<1> QED
  BY <1>1, Invariant, PTL

(* What LoadFromLookup accepts never fails in mlclient.New, which asks the   *)
(* service the environment named: for every text of a URL, padded, with      *)
(* escapes, with trailing slashes or a bare "?".                             *)
THEOREM ClientAlwaysBuilds == Spec => AcceptedConfigBuilds
<1> DEFINE Built(env) == /\ api' # "unbuilt"
                         /\ api' = "up" =>
                              client' = BaseUrl(StringValue(env, "ML_SERVICE_URL", DefaultUrl))
<1>1. ASSUME NEW env \in ApiEnvironments, StartApi(env), Loads(env) PROVE Built(env)
  <2>1. ClientBuilds(Config(env))
        /\ NewClient(Config(env)) = BaseUrl(StringValue(env, "ML_SERVICE_URL", DefaultUrl))
    BY <1>1, AcceptedBuilds
  <2>2. api' \in {"up", "failed"}
    BY <1>1, <2>1 DEF StartApi, ApiOutcomes
  <2>3. api' = "up" => client' = NewClient(Config(env))
    BY <1>1 DEF StartApi
  <2> QED
    BY <2>1, <2>2, <2>3
<1>2. [Next]_vars => [\A env \in ApiEnvironments : StartApi(env) /\ Loads(env) => Built(env)]_vars
  BY <1>1
<1> QED
  BY <1>2, PTL DEF Spec, AcceptedConfigBuilds

(* A search API whose URL leads to the ML service's port and root finds it  *)
(* ready, whatever the two were configured with.                            *)
THEOREM AddressedFindsReady == Spec => AddressedIsReady
<1> DEFINE Addressed == /\ Connects /\ ~Answers500(settings)
                        /\ \A i \in DOMAIN client.path : client.path[i] = "/"
<1>1. ASSUME StartInv, Probe, Addressed PROVE reply' = "ready"
  <2>1. PICK env \in ApiEnvironments : Loads(env) /\ client = NewClient(Config(env))
    BY <1>1 DEF Probe, StartInv
  <2>2. PICK ml_env \in MlEnvironments : settings = Settings(ml_env)
    BY <1>1 DEF Connects, StartInv
  <2>3. client.path = <<>>
    BY <1>1, <2>1, AcceptedBuilds, TrimmedPath
  <2>4. ValidModelInfo(ModelInfo(settings))
    BY <2>2, InfoIsValid
  <2> QED
    BY <1>1, <2>3, <2>4 DEF Probe, Answers200
<1>2. StartInv /\ [Next]_vars => [Probe /\ Addressed => reply' = "ready"]_vars
  BY <1>1
<1> QED
  BY <1>2, Invariant, PTL DEF Spec, AddressedIsReady
=============================================================================
