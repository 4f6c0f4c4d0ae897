------------------------- MODULE StateUpdateProofs -------------------------
(***************************************************************************)
(* Proofs about StateUpdate.tla, for any texts, limits and timeouts: what  *)
(* a text goes through on its way to the next prompt, and how far a wake   *)
(* may run over its limit of time.                                         *)
(***************************************************************************)
EXTENDS StateUpdate, NaturalFacts

Texts == Seq(Letters \cup {Blank})

\* None is no text and no list of texts.
NoneIsNoSequence == None \notin Texts /\ None \notin Seq(Texts)

\* What an entry is once it has been read: a text with something in it, and
\* without blanks around it.
Stripped == {text \in Texts : text # << >> /\ Strip(text) = text}

\* What a prompt has room for.
Short == {text \in Texts : Len(text) <= MaxChars}
----------------------------------------------------------------------------
\* The letters of a text, the first and the last of them.
Places(text) == {n \in DOMAIN text : text[n] # Blank}

\* A text that has letters has a first and a last one.
LEMMA EndsOfText ==
    ASSUME NEW text \in Texts, Places(text) # {}
    PROVE  /\ Min(Places(text)) \in Places(text)
           /\ Max(Places(text)) \in Places(text)
           /\ \A n \in Places(text) : Min(Places(text)) <= n /\ n <= Max(Places(text))
<1>1. Places(text) \subseteq 0 .. Len(text) /\ Len(text) \in Nat
  BY DEF Texts, Places
<1>2. Places(text) \subseteq Nat
  BY <1>1
<1>3. \E n \in Places(text) : \A m \in Places(text) : n <= m
  BY <1>2, LeastNumber
<1>4. \E n \in Places(text) : \A m \in Places(text) : m <= n
  BY <1>1, GreatestNumber
<1>5. \A m \in Places(text) : m \in Int
  BY <1>2
<1>6. Min(Places(text)) \in Places(text) /\ \A n \in Places(text) : Min(Places(text)) <= n
  BY <1>3 DEF Min
<1>7. Max(Places(text)) \in Places(text) /\ \A n \in Places(text) : n <= Max(Places(text))
  <2>1. \E n \in Places(text) : \A m \in Places(text) : n >= m
    BY <1>4, <1>5
  <2>2. Max(Places(text)) \in Places(text) /\ \A n \in Places(text) : Max(Places(text)) >= n
    BY <2>1 DEF Max
  <2> QED BY <1>5, <2>2
<1> QED BY <1>6, <1>7

\* str.strip: what is left of a text, if anything, has nothing more to strip.
LEMMA StripFacts ==
    ASSUME NEW text \in Texts
    PROVE  /\ Strip(text) \in Texts
           /\ Len(Strip(text)) <= Len(text)
           /\ Strip(text) # << >> => Strip(text) \in Stripped
<1>1. Strip(text) = IF Places(text) = {} THEN << >>
                    ELSE SubSeq(text, Min(Places(text)), Max(Places(text)))
  BY DEF Strip, Places
<1>2. CASE Places(text) = {}
  BY <1>1, <1>2 DEF Texts
<1>3. CASE Places(text) # {}
  <2> DEFINE m == Min(Places(text))
             k == Max(Places(text))
             cut == Strip(text)
  <2>1. /\ m \in Places(text) /\ k \in Places(text)
        /\ \A n \in Places(text) : m <= n /\ n <= k
    BY <1>3, EndsOfText
  <2>2. cut = SubSeq(text, m, k)
    BY <1>1, <1>3
  <2> HIDE DEF m, k, cut
  <2>3. /\ m \in 1 .. Len(text) /\ k \in 1 .. Len(text) /\ m <= k /\ Len(text) \in Nat
        /\ text[m] # Blank /\ text[k] # Blank
    BY <2>1 DEF Places, Texts
  <2>4. /\ cut \in Texts /\ Len(cut) = k - m + 1
        /\ \A n \in 1 .. k - m + 1 : cut[n] = text[n + m - 1]
    BY <2>2, <2>3 DEF Texts
  <2>5. Len(cut) \in 1 .. Len(text) /\ cut[1] # Blank /\ cut[Len(cut)] # Blank
    BY <2>3, <2>4
  <2>6. 1 \in Places(cut) /\ Len(cut) \in Places(cut) /\ Places(cut) \subseteq 1 .. Len(cut)
    BY <2>4, <2>5 DEF Places, Texts
  <2>7. /\ Min(Places(cut)) \in Places(cut) /\ Max(Places(cut)) \in Places(cut)
        /\ Min(Places(cut)) <= 1 /\ Len(cut) <= Max(Places(cut))
    BY <2>4, <2>6, EndsOfText
  <2>8. Min(Places(cut)) = 1 /\ Max(Places(cut)) = Len(cut)
    BY <2>5, <2>6, <2>7
  <2>9. Strip(cut) = SubSeq(cut, 1, Len(cut))
    BY <2>6, <2>8 DEF Strip, Places
  <2>10. SubSeq(cut, 1, Len(cut)) = cut
    BY <2>4, <2>5 DEF Texts
  <2> QED BY <2>3, <2>4, <2>5, <2>9, <2>10 DEF cut, Stripped
<1> QED BY <1>2, <1>3

\* Reading a list adds to the entries, item by item.
LEMMA ItemByItem ==
    ASSUME NEW items \in Seq({None} \cup Texts)
    PROVE  \E g \in [0 .. Len(items) -> Seq(Stripped)] :
              /\ g[0] = << >>
              /\ \A n \in 1 .. Len(items) : g[n] = g[n - 1] \o Entry(items[n])
              /\ FromDict(items) = g[Len(items)]
<1> DEFINE m == Len(items)
           next == [n \in 1 .. m |-> [s \in Seq(Stripped) |-> s \o Entry(items[n])]]
           Is(g) == g = [n \in 0 .. m |-> IF n = 0 THEN << >> ELSE g[n - 1] \o Entry(items[n])]
           entries == CHOOSE g : Is(g)
<1>1. m \in Nat
  OBVIOUS
<1>2. \A n \in 1 .. m : Entry(items[n]) \in Seq(Stripped)
  <2>1. ASSUME NEW n \in 1 .. m
        PROVE  Entry(items[n]) \in Seq(Stripped)
    <3>1. items[n] \in {None} \cup Texts
      OBVIOUS
    <3>2. CASE items[n] = None \/ Strip(items[n]) = << >>
      BY <3>2 DEF Entry
    <3>3. CASE items[n] # None /\ Strip(items[n]) # << >>
      <4>1. Strip(items[n]) \in Stripped
        BY <3>1, <3>3, StripFacts
      <4> QED BY <3>3, <4>1 DEF Entry
    <3> QED BY <3>2, <3>3
  <2> QED BY <2>1
<1>3. next \in [1 .. m -> [Seq(Stripped) -> Seq(Stripped)]]
  <2>1. ASSUME NEW n \in 1 .. m, NEW s \in Seq(Stripped)
        PROVE  s \o Entry(items[n]) \in Seq(Stripped)
    BY <1>2
  <2>2. ASSUME NEW n \in 1 .. m
        PROVE  [s \in Seq(Stripped) |-> s \o Entry(items[n])] \in [Seq(Stripped) -> Seq(Stripped)]
    BY <2>1, Zenon
  <2> HIDE DEF m
  <2> QED BY <2>2, Zenon
<1>4. << >> \in Seq(Stripped)
  OBVIOUS
<1>5. PICK h \in [0 .. m -> Seq(Stripped)] :
             /\ h[0] = << >>
             /\ \A n \in 1 .. m : h[n] = next[n][h[n - 1]]
  <2> DEFINE T == Seq(Stripped)
             first == << >>
  <2>1. first \in T /\ next \in [1 .. m -> [T -> T]]
    BY <1>3, <1>4
  <2> HIDE DEF next, m, T, first
  <2>2. \E h \in [0 .. m -> T] : h[0] = first /\ \A n \in 1 .. m : h[n] = next[n][h[n - 1]]
    BY <1>1, <2>1, Recursion
  <2> QED BY <2>2 DEF T, first
<1>6. \A n \in 1 .. m : n - 1 \in 0 .. m /\ n \in 0 .. m /\ n # 0
  BY <1>1
<1>7. \A n \in 1 .. m : h[n] = h[n - 1] \o Entry(items[n])
  <2>1. ASSUME NEW n \in 1 .. m
        PROVE  h[n] = h[n - 1] \o Entry(items[n])
    <3>1. h[n - 1] \in Seq(Stripped)
      BY <1>5, <1>6
    <3> QED BY <1>5, <3>1
  <2> QED BY <2>1
<1>8. Is(h)
  <2>1. \A n \in 0 .. m : h[n] = IF n = 0 THEN << >> ELSE h[n - 1] \o Entry(items[n])
    <3>1. \A n \in 0 .. m : n = 0 \/ n \in 1 .. m
      BY <1>1
    <3> HIDE DEF m
    <3> QED BY <1>5, <1>7, <3>1
  <2> HIDE DEF m
  <2> QED BY <2>1
<1>9. Is(entries)
  <2> HIDE DEF Is
  <2> QED BY <1>8
<1>10. FromDict(items) = entries[m]
  BY DEF FromDict
<1> HIDE DEF entries, m
<1>11. /\ DOMAIN entries = 0 .. m /\ entries[0] = << >>
       /\ \A n \in 1 .. m : entries[n] = entries[n - 1] \o Entry(items[n])
  <2>1. entries = [n \in 0 .. m |-> IF n = 0 THEN << >>
                                   ELSE entries[n - 1] \o Entry(items[n])]
    BY <1>9, Zenon
  <2>2. \A n \in 0 .. m : entries[n] = IF n = 0 THEN << >>
                                       ELSE entries[n - 1] \o Entry(items[n])
    BY <2>1, Zenon
  <2>3. DOMAIN entries = 0 .. m
    BY <2>1, Zenon
  <2>4. 0 \in 0 .. m
    BY <1>1
  <2> QED BY <1>6, <2>2, <2>3, <2>4
<1>12. 0 .. m \subseteq {n \in 0 .. m : entries[n] = h[n]}
  <2> DEFINE S == {n \in 0 .. m : entries[n] = h[n]}
  <2>1. 0 \in S
    BY <1>1, <1>5, <1>11
  <2>2. \A n \in 1 .. m : n - 1 \in S => n \in S
    BY <1>6, <1>7, <1>11
  <2> HIDE DEF S
  <2>3. 0 .. m \subseteq S
    BY <1>1, <2>1, <2>2, SetInduction
  <2> QED BY <2>3 DEF S
<1>13. m \in 0 .. m
  BY <1>1
<1>14. FromDict(items) = h[m]
  BY <1>10, <1>12, <1>13
<1> QED BY <1>5, <1>7, <1>14 DEF m

\* What is read of a list: no more entries than items, each of them the stripped
\* text of an item that has one.
LEMMA ReadFacts ==
    ASSUME NEW T, T \subseteq Texts, NEW G, NEW items \in Seq({None} \cup T),
           \A text \in T : Strip(text) = << >> \/ Strip(text) \in G
    PROVE  FromDict(items) \in Seq(G) /\ Len(FromDict(items)) <= Len(items)
<1>1. items \in Seq({None} \cup Texts) /\ Len(items) \in Nat
  OBVIOUS
<1>2. PICK g \in [0 .. Len(items) -> Seq(Stripped)] :
              /\ g[0] = << >>
              /\ \A n \in 1 .. Len(items) : g[n] = g[n - 1] \o Entry(items[n])
              /\ FromDict(items) = g[Len(items)]
  BY <1>1, ItemByItem
<1> DEFINE S == {n \in 0 .. Len(items) : g[n] \in Seq(G) /\ Len(g[n]) <= n}
<1>3. 0 \in S
  BY <1>1, <1>2
<1>4. ASSUME NEW n \in 1 .. Len(items), n - 1 \in S
      PROVE  n \in S
  <2>1. n \in 0 .. Len(items) /\ n \in Nat /\ items[n] \in {None} \cup T
    OBVIOUS
  <2>2. g[n - 1] \in Seq(G) /\ Len(g[n - 1]) <= n - 1
    BY <1>4
  <2>3. Entry(items[n]) \in Seq(G) /\ Len(Entry(items[n])) <= 1
    <3>1. CASE items[n] = None \/ Strip(items[n]) = << >>
      BY <3>1 DEF Entry
    <3>2. CASE items[n] # None /\ Strip(items[n]) # << >>
      <4>1. Strip(items[n]) \in G
        BY <2>1, <3>2
      <4> QED BY <3>2, <4>1 DEF Entry
    <3> QED BY <3>1, <3>2
  <2>4. g[n] = g[n - 1] \o Entry(items[n])
    BY <1>2
  <2>5. g[n - 1] \o Entry(items[n]) \in Seq(G)
    BY <2>2, <2>3
  <2>6. Len(g[n - 1] \o Entry(items[n])) <= n
    <3>1. \A s, t \in Seq(G) : /\ Len(s) \in Nat /\ Len(t) \in Nat
                              /\ Len(s \o t) = Len(s) + Len(t)
      OBVIOUS
    <3>2. Len(g[n - 1] \o Entry(items[n])) = Len(g[n - 1]) + Len(Entry(items[n]))
      BY <2>2, <2>3, <3>1
    <3>3. Len(g[n - 1]) \in Nat /\ Len(Entry(items[n])) \in Nat
      BY <2>2, <2>3, <3>1
    <3>4. \A j, k \in Nat : j <= n - 1 /\ k <= 1 => j + k <= n
      BY <2>1
    <3> QED BY <2>2, <2>3, <3>2, <3>3, <3>4
  <2> QED BY <2>1, <2>4, <2>5, <2>6
<1>5. Len(items) \in S
  <2> HIDE DEF S
  <2>1. 0 .. Len(items) \subseteq S
    BY <1>1, <1>3, <1>4, SetInduction
  <2> QED BY <1>1, <2>1
<1> QED BY <1>2, <1>5

\* A list of entries is read as it is.
LEMMA ReadAsIs ==
    ASSUME NoneIsNoSequence, NEW items \in Seq(Stripped)
    PROVE  FromDict(items) = items
<1>1. items \in Seq({None} \cup Texts) /\ Len(items) \in Nat
  BY DEF Stripped
<1>2. PICK g \in [0 .. Len(items) -> Seq(Stripped)] :
              /\ g[0] = << >>
              /\ \A n \in 1 .. Len(items) : g[n] = g[n - 1] \o Entry(items[n])
              /\ FromDict(items) = g[Len(items)]
  BY <1>1, ItemByItem
<1> DEFINE S == {n \in 0 .. Len(items) : g[n] = SubSeq(items, 1, n)}
<1>3. 0 \in S
  <2>1. SubSeq(items, 1, 0) = << >>
    OBVIOUS
  <2> QED BY <1>1, <1>2, <2>1
<1>4. ASSUME NEW n \in 1 .. Len(items), n - 1 \in S
      PROVE  n \in S
  <2>1. n \in 0 .. Len(items) /\ n \in Nat /\ items[n] \in Stripped
    OBVIOUS
  <2>2. Entry(items[n]) = <<items[n]>>
    <3>1. items[n] # None
      BY <2>1 DEF NoneIsNoSequence, Stripped
    <3>2. Strip(items[n]) = items[n] /\ items[n] # << >>
      BY <2>1 DEF Stripped
    <3> QED BY <3>1, <3>2 DEF Entry
  <2>3. g[n] = SubSeq(items, 1, n - 1) \o <<items[n]>>
    BY <1>2, <1>4, <2>2
  <2>4. SubSeq(items, 1, n - 1) \o <<items[n]>> = SubSeq(items, 1, n)
    OBVIOUS
  <2> QED BY <2>1, <2>3, <2>4
<1>5. Len(items) \in S
  <2> HIDE DEF S
  <2>1. 0 .. Len(items) \subseteq S
    BY <1>1, <1>3, <1>4, SetInduction
  <2> QED BY <1>1, <2>1
<1>6. SubSeq(items, 1, Len(items)) = items
  OBVIOUS
<1> QED BY <1>2, <1>5, <1>6

\* Reading a list of texts gives entries, of texts that are short enough short
\* ones, and reading those again changes nothing.
LEMMA ReadAgain ==
    ASSUME NoneIsNoSequence, NEW items \in Seq(Texts)
    PROVE  /\ FromDict(items) \in Seq(Stripped)
           /\ FromDict(FromDict(items)) = FromDict(items)
           /\ items \in Seq(Short) => FromDict(items) \in Seq(Stripped \cap Short)
           /\ Len(FromDict(items)) <= Len(items)
<1>1. items \in Seq({None} \cup Texts)
  OBVIOUS
<1>2. FromDict(items) \in Seq(Stripped) /\ Len(FromDict(items)) <= Len(items)
  BY <1>1, StripFacts, ReadFacts
<1>3. ASSUME items \in Seq(Short)
      PROVE  FromDict(items) \in Seq(Stripped \cap Short)
  <2>1. items \in Seq({None} \cup Short) /\ Short \subseteq Texts
    BY <1>3 DEF Short
  <2>2. ASSUME NEW text \in Short
        PROVE  Strip(text) = << >> \/ Strip(text) \in Stripped \cap Short
    <3>1. text \in Texts /\ Len(text) <= MaxChars /\ Len(text) \in Nat
      BY DEF Short, Texts
    <3>2. /\ Strip(text) \in Texts /\ Len(Strip(text)) <= Len(text)
          /\ Strip(text) # << >> => Strip(text) \in Stripped
      BY <3>1, StripFacts
    <3>3. Len(Strip(text)) \in Nat
      BY <3>2 DEF Texts
    <3> QED BY <3>1, <3>2, <3>3, CurrentStateAssumption DEF Short
  <2> QED BY <2>1, <2>2, ReadFacts
<1> QED BY <1>2, <1>3, ReadAsIs

\* A list without items has no entries.
LEMMA ReadNothing == FromDict(<< >>) = << >>
<1>1. << >> \in Seq({None} \cup Texts) /\ Len(<< >>) = 0
  OBVIOUS
<1> QED BY <1>1, ItemByItem

\* CurrentState.clamp: no more entries than allowed, none longer than allowed;
\* what is allowed stays as it is.
LEMMA ClampFacts ==
    ASSUME NEW entries \in Seq(Texts)
    PROVE  /\ Clamp(entries) \in Seq(Short) /\ Len(Clamp(entries)) <= MaxEntries
           /\ entries \in Seq(Short) /\ Len(entries) <= MaxEntries
                => Clamp(entries) = entries
<1> DEFINE k == IF MaxEntries < Len(entries) THEN MaxEntries ELSE Len(entries)
<1>1. /\ k \in 0 .. Len(entries) /\ k <= MaxEntries /\ Len(entries) \in Nat
      /\ Len(entries) <= MaxEntries => k = Len(entries)
  BY CurrentStateAssumption
<1>2. Cut(MaxEntries, entries) = SubSeq(entries, 1, k)
  BY DEF Cut
<1>3. DOMAIN SubSeq(entries, 1, k) = 1 .. k
  BY <1>1
<1> HIDE DEF k
<1>4. Clamp(entries) = [n \in 1 .. k |-> Cut(MaxChars, entries[n])]
  BY <1>2, <1>3 DEF Clamp
<1>5. ASSUME NEW text \in Texts
      PROVE  /\ Cut(MaxChars, text) \in Short
             /\ text \in Short => Cut(MaxChars, text) = text
  <2> DEFINE m == IF MaxChars < Len(text) THEN MaxChars ELSE Len(text)
  <2>1. /\ m \in 0 .. Len(text) /\ m <= MaxChars /\ Len(text) \in Nat
        /\ Len(text) <= MaxChars => m = Len(text)
    BY CurrentStateAssumption DEF Texts
  <2>2. Cut(MaxChars, text) = SubSeq(text, 1, m)
    BY DEF Cut
  <2> HIDE DEF m
  <2>3. SubSeq(text, 1, m) \in Texts /\ Len(SubSeq(text, 1, m)) = m
    BY <2>1 DEF Texts
  <2>4. SubSeq(text, 1, Len(text)) = text
    BY DEF Texts
  <2> QED BY <2>1, <2>2, <2>3, <2>4 DEF Short
<1>6. \A n \in 1 .. k : Cut(MaxChars, entries[n]) \in Short
  BY <1>1, <1>5
<1>7. Clamp(entries) \in Seq(Short) /\ Len(Clamp(entries)) = k
  <2>1. Clamp(entries) \in [1 .. k -> Short]
    BY <1>4, <1>6
  <2>2. k \in Nat
    BY <1>1
  <2> QED BY <2>1, <2>2
<1>8. ASSUME entries \in Seq(Short), Len(entries) <= MaxEntries
      PROVE  Clamp(entries) = entries
  <2>1. \A n \in 1 .. Len(entries) : Cut(MaxChars, entries[n]) = entries[n]
    <3>1. \A n \in 1 .. Len(entries) : entries[n] \in Short /\ entries[n] \in Texts
      BY <1>8
    <3> QED BY <1>5, <3>1
  <2>2. entries = [n \in 1 .. Len(entries) |-> entries[n]]
    OBVIOUS
  <2>3. k = Len(entries)
    BY <1>1, <1>8
  <2> QED BY <1>4, <2>1, <2>2, <2>3
<1> QED BY <1>1, <1>7, <1>8
----------------------------------------------------------------------------
\* The clock after n failed attempts of a request, the waits included.
Spent(n, timeout) == n * timeout + (2 ^ n - 1) + n

\* Every failed attempt adds its timeout, its wait and its jitter.
LEMMA SpentFacts ==
    ASSUME NEW n \in Nat, NEW timeout \in Nat
    PROVE  /\ Spent(n, timeout) \in Nat
           /\ Spent(0, timeout) = 0
           /\ Spent(n + 1, timeout) = Spent(n, timeout) + timeout + 2 ^ n + 1
<1> DEFINE p == 2 ^ n
           q == 2 ^ (n + 1)
<1>1. p \in Nat \ {0} /\ q = 2 * p
  BY PowerOfTwo, NextPower
<1>2. Spent(n, timeout) = n * timeout + (p - 1) + n
  BY DEF Spent
<1>3. Spent(n + 1, timeout) = (n + 1) * timeout + (q - 1) + (n + 1)
  BY DEF Spent
<1>4. Spent(0, timeout) = 0 * timeout + (1 - 1) + 0
  BY FirstPower DEF Spent
<1> HIDE DEF p, q
<1>5. n * timeout \in Nat /\ (n + 1) * timeout = n * timeout + timeout
  OBVIOUS
<1>6. 0 * timeout = 0
  OBVIOUS
<1>7. Spent(n, timeout) \in Nat
  BY <1>1, <1>2, <1>5
<1>8. Spent(n + 1, timeout) = Spent(n, timeout) + timeout + p + 1
  BY <1>1, <1>2, <1>3, <1>5
<1>9. Spent(0, timeout) = 0
  BY <1>4, <1>6
<1> QED BY <1>7, <1>8, <1>9 DEF p

\* More attempts take no less time.
LEMMA SpentGrows ==
    ASSUME NEW n \in Nat, NEW k \in Nat, NEW timeout \in Nat
    PROVE  Spent(n, timeout) <= Spent(n + k, timeout)
<1> DEFINE S == {j \in 0 .. k : Spent(n, timeout) <= Spent(n + j, timeout)}
<1>1. 0 \in S
  <2>1. n + 0 = n /\ 0 \in 0 .. k
    OBVIOUS
  <2> QED BY <2>1, SpentFacts
<1>2. ASSUME NEW j \in 1 .. k, j - 1 \in S
      PROVE  j \in S
  <2>1. /\ j \in 0 .. k /\ n + (j - 1) \in Nat /\ (n + (j - 1)) + 1 = n + j
        /\ n + j \in Nat
    OBVIOUS
  <2>2. /\ Spent(n + (j - 1), timeout) \in Nat /\ Spent(n, timeout) \in Nat
        /\ Spent(n + j, timeout)
             = Spent(n + (j - 1), timeout) + timeout + 2 ^ (n + (j - 1)) + 1
    BY <2>1, SpentFacts
  <2>3. 2 ^ (n + (j - 1)) \in Nat
    BY <2>1, PowerOfTwo
  <2>4. Spent(n + (j - 1), timeout) <= Spent(n + j, timeout)
    BY <2>2, <2>3
  <2>5. Spent(n, timeout) <= Spent(n + (j - 1), timeout)
    BY <1>2
  <2>6. Spent(n + j, timeout) \in Nat
    BY <2>1, SpentFacts
  <2>7. Spent(n, timeout) <= Spent(n + j, timeout)
    BY <2>2, <2>4, <2>5, <2>6
  <2> QED BY <2>1, <2>7
<1>3. k \in S
  <2> HIDE DEF S
  <2>1. 0 .. k \subseteq S
    BY <1>1, <1>2, SetInduction
  <2> QED BY <2>1
<1> QED BY <1>3

\* _with_retries: while attempts are left, the next one, as long as it may take,
\* stays within what a request may take.
LEMMA AttemptFits ==
    ASSUME NEW n \in 0 .. Retries - 1, NEW timeout \in Nat, NEW d \in 0 .. timeout
    PROVE  AtMost(timeout) \in Nat /\ Spent(n, timeout) + d <= AtMost(timeout)
<1> DEFINE last == Retries - 1
<1>1. last \in Nat /\ n \in Nat /\ last - n \in Nat /\ n + (last - n) = last
  BY StateUpdateAssumption
<1>2. Spent(n, timeout) <= Spent(last, timeout)
  BY <1>1, SpentGrows
<1>3. Spent(n, timeout) \in Nat /\ Spent(last, timeout) \in Nat
  BY <1>1, SpentFacts
<1>4. AtMost(timeout) = Spent(last, timeout) + timeout
  <2>1. Retries * timeout = last * timeout + timeout /\ last * timeout \in Nat
    BY <1>1, StateUpdateAssumption
  <2> DEFINE p == 2 ^ last
  <2>2. p \in Nat
    BY <1>1, PowerOfTwo
  <2>3. AtMost(timeout) = Retries * timeout + (p - 1) + last
    BY DEF AtMost
  <2>4. Spent(last, timeout) = last * timeout + (p - 1) + last
    BY DEF Spent
  <2> HIDE DEF p, last
  <2> QED BY <1>1, <2>1, <2>2, <2>3, <2>4
<1> HIDE DEF last
<1> QED BY <1>2, <1>3, <1>4
----------------------------------------------------------------------------
\* What the tables hold is short, a rebuild would read the same of either, and
\* a wake has been given what is stored, until it stores something else.
ContentInv ==
    /\ stored \in Seq(Short) /\ Len(stored) <= MaxEntries
    /\ after = None => stored = << >>
    /\ after # None => /\ after \in Seq(Short) /\ Len(after) <= MaxEntries
                       /\ FromDict(stored) = FromDict(after)
    /\ prior \in Seq(Stripped \cap Short) /\ Len(prior) <= MaxEntries
    /\ pc \notin {"idle", "closing"} => prior = FromDict(stored)

\* Where a wake stands, the clock is no later than this.
ClockInv ==
    /\ pc = "idle" => attempt = 0 /\ rounds = 0 /\ elapsed = 0
    /\ pc \in {"loop", "settling"} => attempt = 0
    /\ pc = "completing" => rounds < MaxIterations
    /\ pc \in {"completing", "updating"} =>
          elapsed <= MaxWall + Spent(attempt, CompleteTimeout)
    /\ pc = "embedding" /\ rounds = 0 =>
          searches = 1 /\ elapsed <= Spent(attempt, EmbedTimeout)
    /\ pc = "embedding" /\ rounds # 0 =>
          /\ searches # 0
          /\ elapsed <= MaxWall + AtMost(CompleteTimeout)
                           + (MaxCalls - searches) * AtMost(EmbedTimeout)
                           + Spent(attempt, EmbedTimeout)
    /\ elapsed <= Overrun
----------------------------------------------------------------------------
\* An answer is None or a list of what an answer may list.
LEMMA AnswersAreLists ==
    ASSUME NEW answer \in Answers
    PROVE  answer = None \/ answer \in Seq({None} \cup Texts)
<1>1. Items \subseteq {None} \cup Texts
  BY StateUpdateAssumption DEF Texts
<1>2. CASE answer = None
  BY <1>2
<1>3. CASE answer \in SeqOf(Items, MaxItems)
  <2>1. PICK m \in 0 .. MaxItems : answer \in [1 .. m -> Items]
    BY <1>3 DEF SeqOf
  <2>2. m \in Nat
    BY StateUpdateAssumption
  <2>3. answer \in [1 .. m -> {None} \cup Texts]
    BY <1>1, <2>1
  <2> QED BY <2>2, <2>3
<1> QED BY <1>2, <1>3 DEF Answers

\* What a state becomes of an answer is short, and not None.
LEMMA NewStateIsShort ==
    ASSUME NoneIsNoSequence, ContentInv, NEW answer \in Answers
    PROVE  /\ NewState(answer) \in Seq(Short) /\ Len(NewState(answer)) <= MaxEntries
           /\ NewState(answer) # None
<1>1. NewState(answer) \in Seq(Short) /\ Len(NewState(answer)) <= MaxEntries
  <2>1. CASE answer = None
    <3>1. prior \in Seq(Short) /\ Len(prior) <= MaxEntries
      BY DEF ContentInv
    <3> QED BY <2>1, <3>1 DEF NewState
  <2>2. CASE answer # None
    <3>1. answer \in Seq({None} \cup Texts)
      BY <2>2, AnswersAreLists
    <3>2. FromDict(answer) \in Seq(Stripped)
      BY <3>1, StripFacts, ReadFacts
    <3>3. FromDict(answer) \in Seq(Texts)
      BY <3>2 DEF Stripped
    <3>4. Clamp(FromDict(answer)) \in Seq(Short) /\ Len(Clamp(FromDict(answer))) <= MaxEntries
      BY <3>3, ClampFacts
    <3> QED BY <2>2, <3>4 DEF NewState
  <2> QED BY <2>1, <2>2
<1>2. NewState(answer) \in Seq(Texts)
  BY <1>1 DEF Short
<1> QED BY <1>1, <1>2 DEF NoneIsNoSequence

\* What a short table holds makes a prompt that is bounded.
LEMMA ReadIsShort ==
    ASSUME NoneIsNoSequence, NEW items \in Seq(Short), Len(items) <= MaxEntries
    PROVE  /\ FromDict(items) \in Seq(Stripped \cap Short)
           /\ Len(FromDict(items)) <= MaxEntries
           /\ FromDict(FromDict(items)) = FromDict(items)
<1>1. items \in Seq(Texts)
  BY DEF Short
<1>2. /\ FromDict(items) \in Seq(Stripped \cap Short)
      /\ FromDict(FromDict(items)) = FromDict(items)
      /\ Len(FromDict(items)) <= Len(items)
  BY <1>1, ReadAgain
<1>3. Len(FromDict(items)) \in Nat /\ Len(items) \in Nat
  BY <1>2
<1> QED BY <1>2, <1>3, CurrentStateAssumption

\* It holds at the start.
LEMMA ContentInit ==
    ASSUME Init
    PROVE  ContentInv
<1>1. << >> \in Seq(Short) /\ << >> \in Seq(Stripped \cap Short) /\ Len(<< >>) = 0
  OBVIOUS
<1> QED BY <1>1, CurrentStateAssumption DEF Init, ContentInv

\* Every step keeps it.
LEMMA ContentStep ==
    ASSUME NoneIsNoSequence, ContentInv, [Next]_vars
    PROVE  ContentInv'
<1>1. CASE Wake
  <2>1. UNCHANGED <<stored, after>> /\ prior' = FromDict(stored)
    BY <1>1 DEF Wake
  <2>2. prior' \in Seq(Stripped \cap Short) /\ Len(prior') <= MaxEntries
    BY <2>1, ReadIsShort DEF ContentInv
  <2> QED BY <2>1, <2>2 DEF ContentInv
<1>2. CASE RestoreState
  <2>1. UNCHANGED <<after, prior, pc>> /\ stored' = FromDict(after) /\ after # None
        /\ pc = "idle"
    BY <1>2 DEF RestoreState
  <2>2. /\ FromDict(after) \in Seq(Stripped \cap Short)
        /\ Len(FromDict(after)) <= MaxEntries
        /\ FromDict(FromDict(after)) = FromDict(after)
    BY <2>1, ReadIsShort DEF ContentInv
  <2>3. stored' \in Seq(Short)
    BY <2>1, <2>2
  <2>4. FromDict(stored') = FromDict(after')
    BY <2>1, <2>2
  <2> QED BY <2>1, <2>2, <2>3, <2>4 DEF ContentInv
<1>3. ASSUME NEW answer \in Answers, NEW d \in 0 .. Timeout, UpdateState(answer, d)
      PROVE  ContentInv'
  <2>1. /\ stored' = NewState(answer) /\ after' = NewState(answer)
        /\ pc' = "closing" /\ prior' = prior
    BY <1>3 DEF UpdateState, Ending
  <2>2. /\ NewState(answer) \in Seq(Short) /\ Len(NewState(answer)) <= MaxEntries
        /\ NewState(answer) # None
    BY NewStateIsShort
  <2> QED BY <2>1, <2>2 DEF ContentInv
<1>4. CASE Close
  <2>1. /\ UNCHANGED <<stored, after>> /\ prior' = << >> /\ pc' = "idle"
        /\ Len(<< >>) = 0
    BY <1>4 DEF Close
  <2>2. prior' \in Seq(Stripped \cap Short) /\ Len(prior') <= MaxEntries
    BY <2>1, CurrentStateAssumption
  <2> QED BY <2>1, <2>2 DEF ContentInv
<1>5. CASE Ask \/ Settle
  <2>1. UNCHANGED <<stored, after, prior>> /\ pc \notin {"idle", "closing"}
    BY <1>5 DEF Ask, Settle
  <2> QED BY <2>1 DEF ContentInv
<1>6. ASSUME NEW d \in 0 .. Timeout,
             \/ Completed(d) \/ Embedded(d) \/ GiveUp(d) \/ Surfaces(d)
             \/ \E jitter \in 0 .. 1 : TryAgain(d, jitter)
      PROVE  ContentInv'
  <2>1. UNCHANGED <<stored, after, prior>> /\ pc \notin {"idle", "closing"}
    BY <1>6 DEF Completed, Embedded, GiveUp, Surfaces, TryAgain, Ending, Requesting
  <2> QED BY <2>1 DEF ContentInv
<1>7. CASE UNCHANGED vars
  BY <1>7 DEF vars, ContentInv
<1> QED BY <1>1, <1>2, <1>3, <1>4, <1>5, <1>6, <1>7 DEF Next, Step
----------------------------------------------------------------------------
\* What a wake holds beside the texts is of its kind.
Control ==
    /\ pc \in {"idle", "embedding", "loop", "completing", "settling",
              "updating", "closing"}
    /\ attempt \in 0 .. Retries - 1
    /\ rounds \in 0 .. MaxIterations
    /\ searches \in 0 .. MaxCalls
    /\ elapsed \in 0 .. Overrun + 1

\* The limit a wake may run to is that of its parts.
LEMMA OverrunFacts ==
    /\ AtMost(CompleteTimeout) \in Nat /\ AtMost(EmbedTimeout) \in Nat
    /\ Overrun \in Nat /\ MaxWall \in Nat
    /\ MaxWall + AtMost(CompleteTimeout) <= Overrun
    /\ AtMost(EmbedTimeout) <= Overrun
    /\ \A n \in 1 .. MaxCalls :
          /\ (MaxCalls - n) * AtMost(EmbedTimeout) \in Nat
          /\ (MaxCalls - n) * AtMost(EmbedTimeout) + AtMost(EmbedTimeout)
                = (MaxCalls - (n - 1)) * AtMost(EmbedTimeout)
          /\ MaxWall + AtMost(CompleteTimeout)
                + (MaxCalls - (n - 1)) * AtMost(EmbedTimeout) <= Overrun
<1> DEFINE X == AtMost(CompleteTimeout)
           Y == AtMost(EmbedTimeout)
<1>1. X \in Nat /\ Y \in Nat
  <2>1. 0 \in 0 .. Retries - 1 /\ 0 \in 0 .. CompleteTimeout /\ 0 \in 0 .. EmbedTimeout
    BY StateUpdateAssumption
  <2> QED BY <2>1, AttemptFits, StateUpdateAssumption
<1>2. Overrun = MaxWall + X + MaxCalls * Y
  BY DEF Overrun
<1> HIDE DEF X, Y
<1>3. MaxCalls * Y \in Nat /\ Y <= MaxCalls * Y
  BY <1>1, StateUpdateAssumption
<1>4. ASSUME NEW n \in 1 .. MaxCalls
      PROVE  /\ (MaxCalls - n) * Y \in Nat
             /\ (MaxCalls - n) * Y + Y = (MaxCalls - (n - 1)) * Y
             /\ (MaxCalls - (n - 1)) * Y <= MaxCalls * Y
             /\ (MaxCalls - (n - 1)) * Y \in Nat
  <2>1. MaxCalls \in Nat /\ n - 1 \in Nat
    BY StateUpdateAssumption
  <2>2. (MaxCalls - (n - 1)) * Y = MaxCalls * Y - (n - 1) * Y
    BY <1>1, <2>1
  <2>3. (n - 1) * Y \in Nat
    BY <1>1, <2>1
  <2>4. MaxCalls - n \in Nat
    BY <2>1
  <2>5. (MaxCalls - n) * Y \in Nat
    BY <1>1, <2>4
  <2>6. (MaxCalls - n) * Y + Y = ((MaxCalls - n) + 1) * Y
    BY <1>1, <2>4
  <2>7. (MaxCalls - n) + 1 = MaxCalls - (n - 1)
    BY <2>1
  <2> QED BY <1>1, <1>3, <2>2, <2>3, <2>5, <2>6, <2>7
<1>5. MaxWall \in Nat
  BY StateUpdateAssumption
<1>6. \A n \in 1 .. MaxCalls : MaxWall + X + (MaxCalls - (n - 1)) * Y <= Overrun
  BY <1>1, <1>2, <1>3, <1>4, <1>5
<1>7. Overrun \in Nat /\ MaxWall + X <= Overrun /\ Y <= Overrun
  BY <1>1, <1>2, <1>3, <1>5
<1> QED BY <1>1, <1>4, <1>5, <1>6, <1>7 DEF X, Y

\* When the request a wake is making began, the clock was no later than this.
Began ==
    IF pc # "embedding" THEN MaxWall
    ELSE IF rounds = 0 THEN 0
    ELSE MaxWall + AtMost(CompleteTimeout)
            + (MaxCalls - searches) * AtMost(EmbedTimeout)

\* A request ends in time: so it does if the attempt it is at is the last one.
LEMMA RequestFits ==
    ASSUME Control, ClockInv, Requesting
    PROVE  /\ Began \in Nat /\ Timeout \in Nat
           /\ elapsed <= Began + Spent(attempt, Timeout)
           /\ Began + AtMost(Timeout) <= Overrun
<1>1. Timeout \in Nat
  BY StateUpdateAssumption DEF Timeout
<1>2. CASE pc # "embedding"
  <2>1. pc \in {"completing", "updating"} /\ Timeout = CompleteTimeout /\ Began = MaxWall
    BY <1>2 DEF Requesting, Timeout, Began
  <2> QED BY <1>1, <2>1, OverrunFacts DEF ClockInv
<1>3. CASE pc = "embedding" /\ rounds = 0
  <2>1. Timeout = EmbedTimeout /\ Began = 0 /\ elapsed <= Spent(attempt, EmbedTimeout)
    BY <1>3 DEF Timeout, Began, ClockInv
  <2>2. attempt \in Nat /\ elapsed \in Nat
    BY StateUpdateAssumption, OverrunFacts DEF Control
  <2>3. Spent(attempt, EmbedTimeout) \in Nat
    BY <1>1, <2>1, <2>2, SpentFacts
  <2> QED BY <1>1, <2>1, <2>2, <2>3, OverrunFacts
<1>4. CASE pc = "embedding" /\ rounds # 0
  <2>1. Timeout = EmbedTimeout /\ searches # 0
    BY <1>4 DEF Timeout, ClockInv
  <2>2. searches \in 1 .. MaxCalls
    BY <2>1, StateUpdateAssumption DEF Control
  <2> DEFINE X == AtMost(CompleteTimeout)
             Y == AtMost(EmbedTimeout)
             Z == (MaxCalls - searches) * Y
             W == (MaxCalls - (searches - 1)) * Y
  <2>3. X \in Nat /\ Y \in Nat /\ Z \in Nat /\ Z + Y = W /\ MaxWall + X + W <= Overrun
        /\ MaxWall \in Nat
    BY <2>2, OverrunFacts
  <2>4. Began = MaxWall + X + Z
    BY <1>4 DEF Began
  <2>5. elapsed <= MaxWall + X + Z + Spent(attempt, EmbedTimeout)
    BY <1>4 DEF ClockInv
  <2>6. AtMost(Timeout) = Y
    BY <2>1
  <2> HIDE DEF X, Y, Z, W
  <2>7. Began \in Nat /\ Began + AtMost(Timeout) <= Overrun
    <3>1. MaxWall + X + Z + Y = MaxWall + X + W
      BY <2>3
    <3> QED BY <2>3, <2>4, <2>6, <3>1
  <2> QED BY <1>1, <2>1, <2>4, <2>5, <2>7
<1> QED BY <1>2, <1>3, <1>4

\* However it ends, the clock has not run further than that.
LEMMA EndsInTime ==
    ASSUME Control, ClockInv, Requesting, NEW d \in 0 .. Timeout
    PROVE  /\ Later(d) = elapsed + d /\ elapsed + d \in 0 .. Overrun
           /\ elapsed + d <= Began + AtMost(Timeout)
<1>1. /\ Began \in Nat /\ Timeout \in Nat
      /\ elapsed <= Began + Spent(attempt, Timeout)
      /\ Began + AtMost(Timeout) <= Overrun
  BY RequestFits
<1>2. attempt \in 0 .. Retries - 1 /\ attempt \in Nat
  BY StateUpdateAssumption DEF Control
<1>3. AtMost(Timeout) \in Nat /\ Spent(attempt, Timeout) + d <= AtMost(Timeout)
  BY <1>1, <1>2, AttemptFits
<1>4. Spent(attempt, Timeout) \in Nat
  BY <1>1, <1>2, SpentFacts
<1>5. elapsed \in Nat /\ d \in Nat /\ Overrun \in Nat
  BY <1>1, OverrunFacts DEF Control
<1>6. elapsed + d <= Began + AtMost(Timeout)
  BY <1>1, <1>3, <1>4, <1>5
<1>7. elapsed + d \in 0 .. Overrun
  BY <1>1, <1>3, <1>5, <1>6
<1>8. Later(d) = elapsed + d
  BY <1>5, <1>7 DEF Later
<1> QED BY <1>6, <1>7, <1>8

\* Every limit of the settings can be kept: the start.
LEMMA ClockInit ==
    ASSUME Init
    PROVE  Control /\ ClockInv
BY OverrunFacts, StateUpdateAssumption DEF Init, Control, ClockInv

\* An attempt that failed leaves a request as long as it had, less one attempt.
LEMMA TryAgainStep ==
    ASSUME Control, ClockInv, NEW d \in 0 .. Timeout, NEW jitter \in 0 .. 1,
           TryAgain(d, jitter)
    PROVE  Control' /\ ClockInv'
<1> DEFINE wait == d + 2 ^ attempt + jitter
<1>1. /\ Requesting /\ attempt # Retries - 1 /\ attempt' = attempt + 1
      /\ elapsed' = Later(wait)
      /\ UNCHANGED <<pc, rounds, searches>>
  BY DEF TryAgain, LastAttempt
<1>2. /\ Began \in Nat /\ Timeout \in Nat
      /\ elapsed <= Began + Spent(attempt, Timeout)
      /\ Began + AtMost(Timeout) <= Overrun
  BY <1>1, RequestFits
<1>3. attempt \in Nat /\ attempt + 1 \in 0 .. Retries - 1 /\ attempt + 1 \in Nat
  BY <1>1, StateUpdateAssumption DEF Control
<1>4. 0 \in 0 .. Timeout /\ elapsed \in Nat /\ d \in Nat /\ d <= Timeout /\ Overrun \in Nat
  BY <1>2, OverrunFacts DEF Control
<1>5. AtMost(Timeout) \in Nat /\ Spent(attempt + 1, Timeout) + 0 <= AtMost(Timeout)
  BY <1>2, <1>3, <1>4, AttemptFits
<1>6. /\ Spent(attempt, Timeout) \in Nat /\ Spent(attempt + 1, Timeout) \in Nat
      /\ Spent(attempt + 1, Timeout) = Spent(attempt, Timeout) + Timeout + 2 ^ attempt + 1
  BY <1>2, <1>3, SpentFacts
<1>7. 2 ^ attempt \in Nat
  BY <1>3, PowerOfTwo
<1>8. wait \in Nat /\ Spent(attempt, Timeout) + wait <= Spent(attempt + 1, Timeout)
  BY <1>2, <1>4, <1>6, <1>7
<1> HIDE DEF wait
<1>9. elapsed + wait <= Began + Spent(attempt + 1, Timeout)
  BY <1>2, <1>4, <1>6, <1>8
<1>10. elapsed + wait \in 0 .. Overrun
  BY <1>2, <1>4, <1>5, <1>6, <1>8, <1>9
<1>11. elapsed' = elapsed + wait
  BY <1>1, <1>4, <1>8, <1>10 DEF Later
<1>12. elapsed' \in 0 .. Overrun /\ elapsed' <= Began + Spent(attempt + 1, Timeout)
  BY <1>9, <1>10, <1>11
<1>13. Control'
  <2>1. elapsed' \in 0 .. Overrun + 1
    BY <1>4, <1>12
  <2> QED BY <1>1, <1>3, <2>1 DEF Control
<1>14. elapsed' <= Overrun
  BY <1>12
<1>15. CASE pc \in {"completing", "updating"}
  <2>1. elapsed' <= MaxWall + Spent(attempt', CompleteTimeout)
    BY <1>1, <1>12, <1>15 DEF Began, Timeout
  <2> QED BY <1>1, <1>13, <1>14, <1>15, <2>1 DEF ClockInv
<1>16. CASE pc = "embedding" /\ rounds = 0
  <2>1. elapsed' <= 0 + Spent(attempt', EmbedTimeout)
    BY <1>1, <1>12, <1>16 DEF Began, Timeout
  <2>2. 0 + Spent(attempt', EmbedTimeout) = Spent(attempt', EmbedTimeout)
    BY <1>1, <1>6, <1>16 DEF Timeout
  <2> QED BY <1>1, <1>13, <1>14, <1>16, <2>1, <2>2 DEF ClockInv
<1>17. CASE pc = "embedding" /\ rounds # 0
  <2>1. elapsed' <= MaxWall + AtMost(CompleteTimeout)
                      + (MaxCalls - searches) * AtMost(EmbedTimeout)
                      + Spent(attempt', EmbedTimeout)
    BY <1>1, <1>12, <1>17 DEF Began, Timeout
  <2> QED BY <1>1, <1>13, <1>14, <1>17, <2>1 DEF ClockInv
<1> QED BY <1>1, <1>13, <1>15, <1>16, <1>17 DEF Requesting

\* Every other step of a wake.
LEMMA ClockStep ==
    ASSUME Control, ClockInv, [Next]_vars
    PROVE  Control' /\ ClockInv'
<1>0. /\ Overrun \in Nat /\ MaxWall \in Nat /\ MaxWall <= Overrun
      /\ 0 \in 0 .. Retries - 1 /\ 0 \in 0 .. MaxIterations /\ 0 \in 0 .. MaxCalls
      /\ 1 \in 0 .. MaxCalls /\ 0 \in 0 .. Overrun + 1 /\ 0 <= Overrun
  <2>1. AtMost(CompleteTimeout) \in Nat /\ MaxWall + AtMost(CompleteTimeout) <= Overrun
        /\ Overrun \in Nat /\ MaxWall \in Nat
    BY OverrunFacts
  <2>2. MaxWall <= Overrun
    BY <2>1
  <2> QED BY <2>1, <2>2, StateUpdateAssumption
<1>00. Spent(0, CompleteTimeout) = 0 /\ Spent(0, EmbedTimeout) = 0
  BY SpentFacts, StateUpdateAssumption
<1>1. CASE Wake
  <2>1. /\ attempt' = 0 /\ rounds' = 0 /\ elapsed' = 0
        /\ \/ searches' = 1 /\ pc' = "embedding"
           \/ searches' = 0 /\ pc' = "loop"
    BY <1>1 DEF Wake, ClockInv
  <2>2. Control'
    BY <1>0, <2>1 DEF Control
  <2>3. ClockInv'
    BY <1>0, <1>00, <2>1 DEF ClockInv
  <2> QED BY <2>2, <2>3
<1>2. CASE RestoreState
  BY <1>2 DEF RestoreState, Control, ClockInv
<1>3. CASE Close
  <2>1. pc' = "idle" /\ attempt' = 0 /\ rounds' = 0 /\ searches' = 0 /\ elapsed' = 0
    BY <1>3 DEF Close
  <2> QED BY <1>0, <2>1 DEF Control, ClockInv
<1>4. CASE Ask \/ Settle
  <2>1. /\ UNCHANGED <<attempt, rounds, searches, elapsed>> /\ attempt = 0
        /\ pc' \in {"loop", "closing", "completing", "updating"}
        /\ pc' \in {"completing", "updating"} => ~Exceeded
    BY <1>4 DEF Ask, Settle, ClockInv
  <2>2. rounds \in Nat /\ elapsed \in Nat /\ MaxIterations \in Nat /\ elapsed <= Overrun
    BY <1>0, StateUpdateAssumption DEF Control, ClockInv
  <2>3. ~Exceeded => rounds < MaxIterations /\ elapsed <= MaxWall + Spent(0, CompleteTimeout)
    BY <1>0, <1>00, <2>2 DEF Exceeded
  <2> QED BY <1>0, <2>1, <2>2, <2>3 DEF Control, ClockInv
<1>5. ASSUME NEW d \in 0 .. Timeout,
             \/ GiveUp(d) \/ Surfaces(d)
             \/ \E answer \in Answers : UpdateState(answer, d)
      PROVE  Control' /\ ClockInv'
  <2>1. /\ Requesting /\ elapsed' = Later(d) /\ pc' = "closing"
        /\ UNCHANGED <<attempt, rounds, searches>>
    BY <1>5 DEF GiveUp, Surfaces, UpdateState, Ending, Requesting
  <2>2. elapsed' \in 0 .. Overrun
    BY <2>1, EndsInTime
  <2>3. elapsed' \in 0 .. Overrun + 1 /\ elapsed' <= Overrun
    BY <1>0, <2>2
  <2> QED BY <2>1, <2>3 DEF Control, ClockInv
<1>6. ASSUME NEW d \in 0 .. Timeout, Completed(d)
      PROVE  Control' /\ ClockInv'
  <2>1. /\ Requesting /\ pc = "completing" /\ elapsed' = Later(d)
        /\ attempt' = 0 /\ rounds' = rounds + 1
        /\ searches' \in 0 .. MaxCalls
        /\ pc' = IF searches' = 0 THEN "settling" ELSE "embedding"
    BY <1>6 DEF Completed, Requesting
  <2>2. rounds < MaxIterations /\ rounds \in 0 .. MaxIterations /\ MaxIterations \in Nat
    BY <2>1, StateUpdateAssumption DEF Control, ClockInv
  <2>3. rounds' \in 0 .. MaxIterations /\ rounds' # 0
    BY <2>1, <2>2
  <2> DEFINE X == AtMost(CompleteTimeout)
             Y == AtMost(EmbedTimeout)
  <2>4. elapsed' \in 0 .. Overrun /\ elapsed' <= MaxWall + X
    BY <2>1, EndsInTime DEF Began, Timeout
  <2>5. searches' # 0 =>
          elapsed' <= MaxWall + X + (MaxCalls - searches') * Y + Spent(0, EmbedTimeout)
    <3>1. SUFFICES ASSUME searches' # 0
                   PROVE  elapsed' <= MaxWall + X + (MaxCalls - searches') * Y
                                        + Spent(0, EmbedTimeout)
      OBVIOUS
    <3>2. searches' \in 1 .. MaxCalls
      BY <2>1, <3>1, StateUpdateAssumption
    <3>3. (MaxCalls - searches') * Y \in Nat /\ X \in Nat
      BY <3>2, OverrunFacts
    <3> HIDE DEF X, Y
    <3> QED BY <1>0, <1>00, <2>4, <3>3
  <2> HIDE DEF Y
  <2>6. elapsed' \in 0 .. Overrun + 1 /\ elapsed' <= Overrun
    BY <1>0, <2>4
  <2>7. Control'
    BY <1>0, <2>1, <2>3, <2>6 DEF Control
  <2>8. ClockInv'
    BY <2>1, <2>3, <2>5, <2>6 DEF ClockInv, X, Y
  <2> QED BY <2>7, <2>8
<1>7. ASSUME NEW d \in 0 .. Timeout, Embedded(d)
      PROVE  Control' /\ ClockInv'
  <2>1. /\ Requesting /\ pc = "embedding" /\ elapsed' = Later(d)
        /\ attempt' = 0 /\ searches' = searches - 1 /\ rounds' = rounds
        /\ pc' = CASE searches' > 0 -> "embedding"
                   [] rounds = 0    -> "loop"
                   [] OTHER         -> "settling"
    BY <1>7 DEF Embedded, Requesting
  <2>2. elapsed' \in 0 .. Overrun /\ elapsed' <= Began + AtMost(Timeout)
    BY <2>1, EndsInTime
  <2>3. elapsed' \in 0 .. Overrun + 1 /\ elapsed' <= Overrun
    BY <1>0, <2>2
  <2>4. searches \in 1 .. MaxCalls /\ searches' \in 0 .. MaxCalls
        /\ (searches' > 0 => searches' # 0)
    BY <2>1, StateUpdateAssumption DEF Control, ClockInv
  <2>5. CASE rounds = 0
    <3>1. searches' = 0
      BY <2>1, <2>5 DEF ClockInv
    <3>2. pc' = "loop"
      BY <2>1, <2>5, <3>1
    <3> QED BY <1>0, <2>1, <2>3, <2>4, <3>2 DEF Control, ClockInv
  <2>6. CASE rounds # 0
    <3> DEFINE X == AtMost(CompleteTimeout)
               Y == AtMost(EmbedTimeout)
    <3>1. pc' = IF searches' > 0 THEN "embedding" ELSE "settling"
      BY <2>1, <2>6
    <3>2. /\ (MaxCalls - searches) * Y + Y = (MaxCalls - (searches - 1)) * Y
          /\ (MaxCalls - searches) * Y \in Nat /\ X \in Nat /\ Y \in Nat
      BY <2>4, OverrunFacts
    <3>3. elapsed' <= MaxWall + X + (MaxCalls - searches) * Y + Y
      BY <2>1, <2>2, <2>6 DEF Began, Timeout
    <3>4. elapsed' <= MaxWall + X + (MaxCalls - searches') * Y + Spent(0, EmbedTimeout)
      <4> DEFINE Z == (MaxCalls - searches) * Y
                 W == (MaxCalls - searches') * Y
      <4>1. Z + Y = W /\ Z \in Nat
        BY <2>1, <3>2
      <4>2. elapsed' <= MaxWall + X + Z + Y
        BY <3>3
      <4> HIDE DEF X, Y, Z, W
      <4>3. elapsed' <= MaxWall + X + W + Spent(0, EmbedTimeout)
        BY <1>0, <1>00, <3>2, <4>1, <4>2
      <4> QED BY <4>3 DEF W, X
    <3> HIDE DEF Y
    <3>5. Control'
      BY <1>0, <2>1, <2>3, <2>4, <3>1 DEF Control
    <3>6. ClockInv'
      BY <2>1, <2>3, <2>4, <2>6, <3>1, <3>4 DEF ClockInv, X, Y
    <3> QED BY <3>5, <3>6
  <2> QED BY <2>5, <2>6
<1>8. CASE UNCHANGED vars
  BY <1>8 DEF vars, Control, ClockInv
<1> QED BY <1>1, <1>2, <1>3, <1>4, <1>5, <1>6, <1>7, <1>8, TryAgainStep DEF Next, Step
----------------------------------------------------------------------------
\* The parts are the whole.
LEMMA TypesFollow ==
    ASSUME ContentInv, Control
    PROVE  TypeOK
<1>1. Short \subseteq Texts /\ Stripped \subseteq Texts
  BY DEF Short, Stripped
<1>2. /\ stored \in Seq(Texts) /\ prior \in Seq(Texts)
      /\ after = None \/ after \in Seq(Texts)
  BY <1>1 DEF ContentInv
<1> QED BY <1>2 DEF TypeOK, Texts, Control

\* Whatever the services answer, and whatever None is, the clock is kept.
LEMMA ClockHolds == Spec => [](Control /\ ClockInv)
<1>1. Init => Control /\ ClockInv
  BY ClockInit
<1>2. Control /\ ClockInv /\ [Next]_vars => (Control /\ ClockInv)'
  BY ClockStep
<1> QED BY <1>1, <1>2, PTL DEF Spec

\* In every state, what is stored and recorded is as it should be.
LEMMA ContentHolds ==
    ASSUME NoneIsNoSequence
    PROVE  Spec => []ContentInv
<1>1. Init => ContentInv
  BY ContentInit
<1>2. ContentInv /\ [Next]_vars => ContentInv'
  BY ContentStep
<1> QED BY <1>1, <1>2, PTL DEF Spec
----------------------------------------------------------------------------
\* Every variable of StateUpdate holds a value of its kind, for any answers,
\* limits and timeouts.
THEOREM TypeCorrect ==
    ASSUME NoneIsNoSequence
    PROVE  Spec => []TypeOK
<1>1. ContentInv /\ Control => TypeOK
  BY TypesFollow
<1> QED BY <1>1, ClockHolds, ContentHolds, PTL

\* CurrentState: whatever the model answers, however often, the state of every
\* prompt has no more and no longer entries than allowed, and none that is blank
\* or has blanks around it, although what is stored may have been cut at one.
THEOREM EveryPromptIsBounded ==
    ASSUME NoneIsNoSequence
    PROVE  Spec => []PromptIsBounded
<1>1. ContentInv => PromptIsBounded
  <2>1. SUFFICES ASSUME ContentInv PROVE PromptIsBounded
    OBVIOUS
  <2>2. prior \in Seq(Stripped \cap Short) /\ Len(prior) <= MaxEntries
    BY <2>1 DEF ContentInv
  <2>3. ASSUME NEW n \in DOMAIN prior
        PROVE  Len(prior[n]) \in 1 .. MaxChars /\ Strip(prior[n]) = prior[n]
    <3>1. prior[n] \in Stripped /\ prior[n] \in Short
      BY <2>2
    <3>2. prior[n] \in Seq(Letters \cup {Blank}) /\ prior[n] # << >>
      BY <3>1 DEF Stripped, Texts
    <3>3. Len(prior[n]) \in Nat /\ Len(prior[n]) # 0
      BY <3>2
    <3> QED BY <3>1, <3>3, CurrentStateAssumption DEF Stripped, Short
  <2> QED BY <2>2, <2>3 DEF PromptIsBounded, Bounded
<1> QED BY <1>1, ContentHolds, PTL

\* rebuild: the last recorded state, read back and saved, is read as the state
\* the next wake would have been given without the rebuild.
THEOREM RebuildRestoresState ==
    ASSUME NoneIsNoSequence
    PROVE  Spec => []RestoresWhatWasShown
<1>1. ContentInv => RestoresWhatWasShown
  BY ReadNothing DEF ContentInv, RestoresWhatWasShown
<1> QED BY <1>1, ContentHolds, PTL

\* update_state: what the model repeats stays as it is, what it leaves out is
\* dropped, and an answer that cannot be read leaves the state alone.
THEOREM StateFollowsAnswer ==
    ASSUME NoneIsNoSequence
    PROVE  Spec => StateIsTheAnswer
<1> DEFINE Kept == \A d \in 0 .. CompleteTimeout :
                      /\ UpdateState(None, d) \/ UpdateState(prior, d)
                            => FromDict(stored') = FromDict(stored)
                      /\ UpdateState(<< >>, d) => stored' = << >>
<1>1. ContentInv /\ [Next]_vars => [Kept]_vars
  <2>1. SUFFICES ASSUME ContentInv PROVE Kept
    OBVIOUS
  <2>2. /\ prior \in Seq(Stripped) /\ prior \in Seq(Texts) /\ prior \in Seq(Short)
        /\ Len(prior) <= MaxEntries /\ prior # None /\ << >> # None
    <3>1. prior \in Seq(Stripped \cap Short) /\ Len(prior) <= MaxEntries
      BY <2>1 DEF ContentInv
    <3>2. prior \in Seq(Stripped) /\ prior \in Seq(Texts) /\ prior \in Seq(Short)
      BY <3>1 DEF Stripped
    <3>3. << >> \in Seq(Texts)
      OBVIOUS
    <3> QED BY <3>1, <3>2, <3>3 DEF NoneIsNoSequence
  <2>3. FromDict(prior) = prior
    BY <2>2, ReadAsIs
  <2>4. NewState(None) = prior /\ NewState(prior) = prior
    <3>1. Clamp(prior) = prior
      BY <2>2, ClampFacts
    <3> QED BY <2>2, <2>3, <3>1 DEF NewState
  <2>5. NewState(<< >>) = << >>
    <3>1. << >> \in Seq(Texts) /\ << >> \in Seq(Short) /\ Len(<< >>) <= MaxEntries
      BY CurrentStateAssumption
    <3>2. Clamp(<< >>) = << >>
      BY <3>1, ClampFacts
    <3> QED BY <2>2, <3>2, ReadNothing DEF NewState
  <2>6. ASSUME NEW d \in 0 .. CompleteTimeout, UpdateState(None, d) \/ UpdateState(prior, d)
        PROVE  FromDict(stored') = FromDict(stored)
    <3>1. stored' = prior /\ pc = "updating"
      BY <2>4, <2>6 DEF UpdateState
    <3>2. prior = FromDict(stored)
      BY <2>1, <3>1 DEF ContentInv
    <3> QED BY <2>3, <3>1, <3>2
  <2>7. ASSUME NEW d \in 0 .. CompleteTimeout, UpdateState(<< >>, d)
        PROVE  stored' = << >>
    BY <2>5, <2>7 DEF UpdateState
  <2> QED BY <2>6, <2>7
<1>2. StateIsTheAnswer <=> [][Kept]_vars
  BY DEF StateIsTheAnswer
<1> HIDE DEF Kept
<1> QED BY <1>1, <1>2, ContentHolds, PTL DEF Spec

\* Budget: for any limit, timeouts and number of retries, a wake runs over its
\* wall clock by no more than one completion with the calls it asks for, or one
\* update, each with all its retries.
THEOREM WallClockIsKept == Spec => []OverrunIsBounded
<1>1. ClockInv => OverrunIsBounded
  BY DEF ClockInv, OverrunIsBounded
<1> QED BY <1>1, ClockHolds, PTL
=============================================================================
