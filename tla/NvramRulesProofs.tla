-------------------------- MODULE NvramRulesProofs --------------------------
(***************************************************************************)
(* Proofs about NvramRules for any processes, calls, rules and sizes: type *)
(* correctness, and that a call nobody interferes with does to the rule    *)
(* set what its documentation says, for every position and any number of   *)
(* rules.                                                                  *)
(***************************************************************************)
EXTENDS NvramRules, TLAPS

Labels == {"idle", "attr", "check", "count", "fetch", "write", "append", "store"}

(* Where a call can be, by what it does.                                   *)
Place(label, op) ==
    \/ label = "attr" /\ op = "attr"
    \/ label = "check" /\ op \in {"attr", "replace", "add"}
    \/ label \in {"count", "fetch", "write"} /\ op \in {"attr", "replace", "add", "delete", "prepend"}
    \/ label \in {"append", "store"} /\ op \in {"add", "append"}

(* The types of what p has on its stack.                                   *)
Typed(p) ==
    /\ pc[p] \in Labels
    /\ pc[p] # "idle" => call[p] \in Calls[p] /\ Place(pc[p], call[p].op)
    /\ num[p] \in Nat /\ i[p] \in 0 .. num[p] /\ nth[p] \in Int
    /\ pc[p] = "fetch" => i[p] < num[p]
    /\ pc[p] \notin {"fetch", "write"} => i[p] = 0 /\ num[p] = 0 /\ nth[p] \in Nat
    /\ pc[p] \in {"idle", "attr", "check", "count", "append"} => buf[p] = <<>>
    /\ pc[p] \in {"attr", "check", "count", "append"} => nth[p] = call[p].nth
    /\ nth[p] < 0 => call[p].op \in {"add", "prepend"}
    /\ buf[p] \in Seq(Rules) /\ StrLen(buf[p]) < EZPLIB_BUF_LEN
    /\ pc[p] \in {"check", "count", "fetch", "append"} /\ call[p].op # "delete" => new[p] \in Rules

(* What a round of the loop has left in the buffer b, of the rules s, with *)
(* the rule x to be put at c.nth, before rule k is fetched.                *)
Copied(c, s, x, k, n, b) ==
    \/ /\ c.op \in {"attr", "replace"} /\ n = c.nth
       /\ Len(b) = k
       /\ \A j \in 1 .. k : b[j] = IF j = c.nth + 1 THEN x ELSE s[j]
    \/ /\ c.op = "delete" /\ n = c.nth
       /\ Len(b) = IF c.nth < k THEN k - 1 ELSE k
       /\ \A j \in 1 .. Len(b) : b[j] = IF j <= c.nth THEN s[j] ELSE s[j + 1]
    \/ /\ c.op \in {"add", "prepend"} /\ n = c.nth /\ k <= c.nth
       /\ Len(b) = k
       /\ \A j \in 1 .. k : b[j] = s[j]
    \/ /\ c.op \in {"add", "prepend"} /\ n = -1 /\ c.nth <= k
       /\ Len(b) = k + 1
       /\ \A j \in 1 .. k + 1 : b[j] = IF j <= c.nth THEN s[j] ELSE IF j = c.nth + 1 THEN x ELSE s[j - 1]

(* The rule that call c puts into the rules s.                             *)
Rule(c, s) == IF c.op = "attr" THEN [s[c.nth + 1] EXCEPT ![c.attr] = c.val] ELSE c.rule

(* How far the call of p has come, while nobody else has written.          *)
Undisturbed(p) ==
    LET c == call[p]
    IN  /\ pc[p] # "idle"
        /\ start[p] = rules
        /\ pc[p] \in {"check", "count", "fetch", "append"} /\ c.op # "delete" => new[p] = Rule(c, rules)
        /\ pc[p] = "attr" => new[p] = c.rule
        /\ pc[p] \in {"check", "count", "fetch"} /\ c.op = "attr" => c.nth < Len(rules)
        /\ pc[p] \in {"count", "fetch", "write"} /\ c.op = "add" => c.nth < Len(rules)
        /\ pc[p] = "append" /\ c.op = "add" => c.nth = Len(rules)
        /\ pc[p] = "fetch" => num[p] = Len(rules) /\ Copied(c, rules, new[p], i[p], nth[p], buf[p])
        /\ pc[p] = "write" /\ rules # <<>> => buf[p] = Documented(c, rules)
        /\ pc[p] = "store" => buf[p] = Documented(c, rules)

(* The inductive invariant.                                                *)
RulesInv ==
    /\ rules \in Seq(Rules) /\ StrLen(rules) < EZPLIB_BUF_LEN
    /\ DOMAIN pc = Procs /\ DOMAIN call = Procs /\ DOMAIN num = Procs /\ DOMAIN i = Procs
    /\ DOMAIN new = Procs /\ DOMAIN nth = Procs /\ DOMAIN buf = Procs /\ DOMAIN start = Procs
    /\ \A p \in Procs : Typed(p) /\ (start[p] # NoCall => Undisturbed(p))

-----------------------------------------------------------------------------
(* Lengths.                                                                *)
LEMMA Lengths ==
    /\ RuleLen \in Nat /\ EZPLIB_BUF_LEN \in Nat /\ RuleLen < EZPLIB_BUF_LEN
    /\ StrLen(<<>>) < EZPLIB_BUF_LEN /\ StrLen(<<Junk>>) < EZPLIB_BUF_LEN
    /\ <<>> \in Seq(Rules) /\ <<Junk>> \in Seq(Rules)
<1>1. RuleLen \in Nat /\ EZPLIB_BUF_LEN \in Nat /\ RuleLen < EZPLIB_BUF_LEN /\ Junk \in Rules
  BY RulesAssumption
<1>2. <<>> \in Seq(Rules) /\ <<Junk>> \in Seq(Rules) /\ Len(<<Junk>>) = 1 /\ <<Junk>> # <<>>
  BY <1>1
<1>3. StrLen(<<>>) = 0
  BY DEF StrLen
<1>4. StrLen(<<Junk>>) = 1 * (RuleLen + 1) - 1
  BY <1>2 DEF StrLen
<1> QED BY <1>1, <1>2, <1>3, <1>4

LEMMA FitsLength ==
    ASSUME NEW b \in Seq(Rules), FitsBuf(b)
    PROVE  StrLen(b) < EZPLIB_BUF_LEN
<1>1. CASE b = <<>>  BY <1>1, Lengths
<1>2. CASE b # <<>>
  <2> DEFINE x == Len(b) * (RuleLen + 1)
  <2>1. x \in Int /\ x < EZPLIB_BUF_LEN /\ StrLen(b) = x - 1
    BY <1>2, Lengths DEF FitsBuf, StrLen
  <2> QED BY <2>1, Lengths
<1> QED BY <1>1, <1>2

(* Two sequences with the same elements are the same.                      *)
LEMMA SameSequence ==
    ASSUME NEW S, NEW s \in Seq(S), NEW t \in Seq(S), Len(s) = Len(t),
           \A j \in 1 .. Len(s) : s[j] = t[j]
    PROVE  s = t
OBVIOUS

LEMMA Joined ==
    ASSUME NEW S, NEW s \in Seq(S), NEW t \in Seq(S)
    PROVE  /\ s \o t \in Seq(S) /\ Len(s \o t) = Len(s) + Len(t)
           /\ \A j \in 1 .. Len(s) + Len(t) :
                (s \o t)[j] = IF j <= Len(s) THEN s[j] ELSE t[j - Len(s)]
OBVIOUS

LEMMA JoinedOne ==
    ASSUME NEW S, NEW s \in Seq(S), NEW x \in S
    PROVE  /\ s \o <<x>> \in Seq(S) /\ Len(s \o <<x>>) = Len(s) + 1
           /\ \A j \in 1 .. Len(s) : (s \o <<x>>)[j] = s[j]
           /\ (s \o <<x>>)[Len(s) + 1] = x
OBVIOUS

LEMMA RemoveIs ==
    ASSUME NEW S, NEW s \in Seq(S), NEW k \in 1 .. Len(s)
    PROVE  /\ RemoveAt(s, k) \in Seq(S) /\ Len(RemoveAt(s, k)) = Len(s) - 1
           /\ \A j \in 1 .. Len(s) - 1 : RemoveAt(s, k)[j] = IF j < k THEN s[j] ELSE s[j + 1]
<1> DEFINE l == Len(s)
           f == SubSeq(s, 1, k - 1)
           g == SubSeq(s, k + 1, l)
<1>0. l \in Nat /\ k \in 1 .. l
  OBVIOUS
<1>1. f \in Seq(S) /\ Len(f) = k - 1 /\ \A j \in 1 .. k - 1 : f[j] = s[j]
  OBVIOUS
<1>2. g \in Seq(S) /\ Len(g) = l - k /\ \A j \in 1 .. l - k : g[j] = s[k + j]
  OBVIOUS
<1>3. RemoveAt(s, k) = f \o g
  BY DEF RemoveAt
<1> HIDE DEF f, g, l
<1>4. /\ f \o g \in Seq(S) /\ Len(f \o g) = l - 1
      /\ \A j \in 1 .. l - 1 : (f \o g)[j] = IF j <= k - 1 THEN f[j] ELSE g[j - (k - 1)]
  <2>1. Len(f) + Len(g) = l - 1
    BY <1>0, <1>1, <1>2
  <2>2. /\ f \o g \in Seq(S) /\ Len(f \o g) = Len(f) + Len(g)
        /\ \A j \in 1 .. Len(f) + Len(g) :
             (f \o g)[j] = IF j <= Len(f) THEN f[j] ELSE g[j - Len(f)]
    BY <1>1, <1>2, Joined
  <2>3. Len(f) = k - 1
    BY <1>1
  <2> QED BY <2>1, <2>2, <2>3, Zenon
<1>5. ASSUME NEW j \in 1 .. l - 1
      PROVE  (f \o g)[j] = IF j < k THEN s[j] ELSE s[j + 1]
  <2>1. CASE j < k
    <3>1. j \in 1 .. k - 1 /\ j <= k - 1
      BY <2>1
    <3> QED BY <1>1, <1>4, <2>1, <3>1
  <2>2. CASE ~ (j < k)
    <3>1. j - (k - 1) \in 1 .. l - k /\ k + (j - (k - 1)) = j + 1 /\ ~ (j <= k - 1)
      BY <1>0, <2>2
    <3>2. g[j - (k - 1)] = s[k + (j - (k - 1))]
      BY <1>2, <3>1
    <3> QED BY <1>4, <2>2, <3>1, <3>2
  <2> QED BY <2>1, <2>2
<1> QED BY <1>3, <1>4, <1>5 DEF l

LEMMA InsertIs ==
    ASSUME NEW S, NEW s \in Seq(S), NEW k \in 1 .. Len(s), NEW x \in S
    PROVE  /\ InsertAt(s, k, x) \in Seq(S) /\ Len(InsertAt(s, k, x)) = Len(s) + 1
           /\ \A j \in 1 .. Len(s) + 1 :
                InsertAt(s, k, x)[j] = IF j < k THEN s[j] ELSE IF j = k THEN x ELSE s[j - 1]
           /\ k = 1 => InsertAt(s, k, x) = <<x>> \o s
<1> DEFINE l == Len(s)
           f == SubSeq(s, 1, k - 1)
           g == SubSeq(s, k, l)
           h == f \o <<x>>
<1>0. l \in Nat /\ k \in 1 .. l
  OBVIOUS
<1>1. f \in Seq(S) /\ Len(f) = k - 1 /\ \A j \in 1 .. k - 1 : f[j] = s[j]
  OBVIOUS
<1>2. g \in Seq(S) /\ Len(g) = l - k + 1 /\ \A j \in 1 .. l - k + 1 : g[j] = s[k + j - 1]
  OBVIOUS
<1>3. InsertAt(s, k, x) = h \o g
  BY DEF InsertAt
<1> HIDE DEF f, g
<1>4. h \in Seq(S) /\ Len(h) = k /\ h[k] = x /\ \A j \in 1 .. k - 1 : h[j] = f[j]
  <2>1. /\ h \in Seq(S) /\ Len(h) = Len(f) + 1 /\ h[Len(f) + 1] = x
        /\ \A j \in 1 .. Len(f) : h[j] = f[j]
    BY <1>1, JoinedOne
  <2>2. Len(f) + 1 = k
    BY <1>0, <1>1
  <2> HIDE DEF h
  <2> QED BY <1>1, <2>1, <2>2
<1>5. k = 1 => h = <<x>> /\ g = s
  <2> SUFFICES ASSUME k = 1 PROVE h = <<x>> /\ g = s
    OBVIOUS
  <2>1. f = <<>>
    BY <1>1
  <2>2. h = <<x>>
    BY <2>1
  <2>3. Len(g) = Len(s) /\ \A j \in 1 .. Len(g) : g[j] = s[j]
    BY <1>0, <1>2
  <2>4. g = s
    BY <1>2, <2>3, SameSequence
  <2> QED BY <2>2, <2>4
<1> HIDE DEF h, l
<1>6. /\ h \o g \in Seq(S) /\ Len(h \o g) = l + 1
      /\ \A j \in 1 .. l + 1 : (h \o g)[j] = IF j <= k THEN h[j] ELSE g[j - k]
  <2>1. Len(h) + Len(g) = l + 1
    BY <1>0, <1>2, <1>4
  <2>2. /\ h \o g \in Seq(S) /\ Len(h \o g) = Len(h) + Len(g)
        /\ \A j \in 1 .. Len(h) + Len(g) :
             (h \o g)[j] = IF j <= Len(h) THEN h[j] ELSE g[j - Len(h)]
    BY <1>2, <1>4, Joined
  <2>3. Len(h) = k
    BY <1>4
  <2> QED BY <2>1, <2>2, <2>3, Zenon
<1>7. ASSUME NEW j \in 1 .. l + 1
      PROVE  (h \o g)[j] = IF j < k THEN s[j] ELSE IF j = k THEN x ELSE s[j - 1]
  <2>1. CASE j < k
    <3>1. j \in 1 .. k - 1 /\ j <= k
      BY <2>1
    <3> QED BY <1>1, <1>4, <1>6, <2>1, <3>1
  <2>2. CASE j = k
    BY <1>4, <1>6, <2>2
  <2>3. CASE j > k
    <3>1. j - k \in 1 .. l - k + 1 /\ k + (j - k) - 1 = j - 1 /\ ~ (j <= k) /\ ~ (j < k) /\ j # k
      BY <1>0, <2>3
    <3>2. g[j - k] = s[k + (j - k) - 1]
      BY <1>2, <3>1
    <3> QED BY <1>6, <3>1, <3>2
  <2>4. j < k \/ j = k \/ j > k
    BY <1>0
  <2> QED BY <2>1, <2>2, <2>3, <2>4
<1> QED BY <1>3, <1>5, <1>6, <1>7 DEF l

-----------------------------------------------------------------------------
(* One round of the loop of ezplib_op_rule.                                *)
LEMMA CopyRound ==
    ASSUME NEW c, c.nth \in Nat, NEW s \in Seq(Rules), NEW b \in Seq(Rules),
           NEW k \in Nat, k < Len(s), NEW n, NEW x,
           Copied(c, s, x, k, n, b)
    PROVE  /\ n # k => Copied(c, s, x, k + 1, n, b \o <<s[k + 1]>>)
           /\ n = k /\ c.op = "delete" => Copied(c, s, x, k + 1, n, b)
           /\ n = k /\ c.op \in {"attr", "replace"} /\ x \in Rules =>
                Copied(c, s, x, k + 1, n, b \o <<x>>)
           /\ n = k /\ c.op \in {"add", "prepend"} /\ x \in Rules =>
                Copied(c, s, x, k, -1, b \o <<x>>)
<1>0. s[k + 1] \in Rules /\ k + 1 \in 1 .. Len(s) /\ Len(b) \in Nat
  OBVIOUS
<1> DEFINE m == c.nth
           d == b \o <<s[k + 1]>>
           e == b \o <<x>>
<1>1. /\ Len(d) = Len(b) + 1 /\ d[Len(b) + 1] = s[k + 1] /\ \A j \in 1 .. Len(b) : d[j] = b[j]
  BY <1>0, JoinedOne
<1>2. x \in Rules => /\ Len(e) = Len(b) + 1 /\ e[Len(b) + 1] = x
                     /\ \A j \in 1 .. Len(b) : e[j] = b[j]
  BY JoinedOne
<1> HIDE DEF d, e
<1>3. CASE /\ c.op \in {"attr", "replace"} /\ n = m /\ Len(b) = k
           /\ \A j \in 1 .. k : b[j] = IF j = m + 1 THEN x ELSE s[j]
  <2>0. \A j \in 1 .. k + 1 : j \in 1 .. k \/ j = k + 1
    OBVIOUS
  <2>1. n # k => Copied(c, s, x, k + 1, n, d)
    BY <1>1, <1>3, <2>0 DEF Copied
  <2>2. n = k /\ x \in Rules => Copied(c, s, x, k + 1, n, e)
    BY <1>2, <1>3, <2>0 DEF Copied
  <2> QED BY <1>3, <2>1, <2>2 DEF d, e
<1>4. CASE /\ c.op = "delete" /\ n = m
           /\ Len(b) = IF m < k THEN k - 1 ELSE k
           /\ \A j \in 1 .. Len(b) : b[j] = IF j <= m THEN s[j] ELSE s[j + 1]
  <2>1. n # k => Copied(c, s, x, k + 1, n, d)
    <3> SUFFICES ASSUME n # k PROVE Copied(c, s, x, k + 1, n, d)
      OBVIOUS
    <3>1. CASE m < k
      <4>1. Len(b) = k - 1 /\ Len(d) = k /\ d[k] = s[k + 1]
        BY <1>1, <1>4, <3>1
      <4>2. \A j \in 1 .. k : j \in 1 .. k - 1 \/ j = k
        OBVIOUS
      <4>3. \A j \in 1 .. k : d[j] = IF j <= m THEN s[j] ELSE s[j + 1]
        BY <1>1, <1>4, <3>1, <4>1, <4>2
      <4> QED BY <1>4, <3>1, <4>1, <4>3 DEF Copied
    <3>2. CASE ~ (m < k)
      <4>1. Len(b) = k /\ Len(d) = k + 1 /\ d[k + 1] = s[k + 1] /\ k + 1 <= m
        BY <1>1, <1>4, <3>2
      <4>2. \A j \in 1 .. k + 1 : j \in 1 .. k \/ j = k + 1
        OBVIOUS
      <4>3. \A j \in 1 .. k + 1 : d[j] = IF j <= m THEN s[j] ELSE s[j + 1]
        BY <1>1, <1>4, <3>2, <4>1, <4>2
      <4> QED BY <1>4, <3>2, <4>1, <4>3 DEF Copied
    <3> QED BY <3>1, <3>2
  <2>2. n = k => Copied(c, s, x, k + 1, n, b)
    BY <1>4 DEF Copied
  <2> QED BY <1>4, <2>1, <2>2 DEF d
<1>5. CASE /\ c.op \in {"add", "prepend"} /\ n = m /\ k <= m
           /\ Len(b) = k
           /\ \A j \in 1 .. k : b[j] = s[j]
  <2>0. \A j \in 1 .. k + 1 : j \in 1 .. k \/ j = k + 1
    OBVIOUS
  <2>1. n # k => Copied(c, s, x, k + 1, n, d)
    BY <1>1, <1>5, <2>0 DEF Copied
  <2>2. n = k /\ x \in Rules => Copied(c, s, x, k, -1, e)
    BY <1>2, <1>5, <2>0 DEF Copied
  <2> QED BY <1>5, <2>1, <2>2 DEF d, e
<1>6. CASE /\ c.op \in {"add", "prepend"} /\ n = -1 /\ m <= k
           /\ Len(b) = k + 1
           /\ \A j \in 1 .. k + 1 : b[j] = IF j <= m THEN s[j] ELSE IF j = m + 1 THEN x ELSE s[j - 1]
  <2>1. \A j \in 1 .. k + 2 : j \in 1 .. k + 1 \/ j = k + 2
    OBVIOUS
  <2>2. Len(d) = k + 2 /\ d[k + 2] = s[k + 1] /\ \A j \in 1 .. k + 1 : d[j] = b[j]
    BY <1>1, <1>6
  <2>3. \A j \in 1 .. k + 2 : d[j] = IF j <= m THEN s[j] ELSE IF j = m + 1 THEN x ELSE s[j - 1]
    <3> TAKE j \in 1 .. k + 2
    <3>1. CASE j \in 1 .. k + 1
      BY <1>6, <2>2, <3>1
    <3>2. CASE j = k + 2
      <4>1. ~ (j <= m) /\ j # m + 1 /\ j - 1 = k + 1
        BY <1>6, <3>2
      <4> QED BY <2>2, <3>2, <4>1
    <3> QED BY <2>1, <3>1, <3>2
  <2>4. Copied(c, s, x, k + 1, n, d)
    BY <1>6, <2>2, <2>3 DEF Copied
  <2> QED BY <1>6, <2>4 DEF d
<1> QED
  BY <1>3, <1>4, <1>5, <1>6 DEF Copied

(* The loop copies the rules as documented.                                *)
LEMMA CopyDone ==
    ASSUME NEW c, c.nth \in Nat, NEW s \in Seq(Rules), NEW b \in Seq(Rules), NEW n,
           Rule(c, s) \in Rules \/ c.op = "delete",
           c.op \in {"attr", "add", "prepend"} => c.nth < Len(s),
           c.op = "prepend" => c.nth = 0,
           Copied(c, s, Rule(c, s), Len(s), n, b)
    PROVE  b = Documented(c, s)
<1> DEFINE m == c.nth
           l == Len(s)
           x == Rule(c, s)
<1>0. l \in Nat /\ m \in Nat
  OBVIOUS
<1>1. CASE c.op \in {"attr", "replace"}
  <2>1. Len(b) = l /\ \A j \in 1 .. l : b[j] = IF j = m + 1 THEN x ELSE s[j]
    BY <1>1 DEF Copied
  <2> DEFINE t == [s EXCEPT ![m + 1] = x]
  <2>2. x \in Rules
    BY <1>1
  <2>3. CASE m < l
    <3>1. t \in Seq(Rules) /\ Len(t) = l /\ \A j \in 1 .. l : t[j] = IF j = m + 1 THEN x ELSE s[j]
      BY <2>2, <2>3
    <3> HIDE DEF t
    <3>2. b = t
      BY <2>1, <3>1, SameSequence
    <3>3. Documented(c, s) = t
      <4>1. CASE c.op = "attr"
        BY <4>1 DEF Documented, Rule, t
      <4>2. CASE c.op = "replace"
        BY <2>3, <4>2 DEF Documented, Rule, ReplaceAt, t
      <4> QED BY <1>1, <4>1, <4>2
    <3> QED BY <3>2, <3>3
  <2>4. CASE ~ (m < l)
    <3>1. c.op = "replace"
      BY <1>1, <2>4
    <3>2. \A j \in 1 .. l : b[j] = s[j]
      BY <1>0, <2>1, <2>4
    <3>3. b = s
      BY <2>1, <3>2, SameSequence
    <3> QED BY <2>4, <3>1, <3>3 DEF Documented
  <2> QED BY <2>3, <2>4
<1>2. CASE c.op = "delete"
  <2>1. /\ Len(b) = IF m < l THEN l - 1 ELSE l
        /\ \A j \in 1 .. Len(b) : b[j] = IF j <= m THEN s[j] ELSE s[j + 1]
    BY <1>2 DEF Copied
  <2>2. CASE m < l
    <3> DEFINE t == RemoveAt(s, m + 1)
    <3>1. /\ t \in Seq(Rules) /\ Len(t) = l - 1
          /\ \A j \in 1 .. l - 1 : t[j] = IF j < m + 1 THEN s[j] ELSE s[j + 1]
      <4>1. m + 1 \in 1 .. Len(s)
        BY <2>2
      <4> QED BY <4>1, RemoveIs
    <3>2. Documented(c, s) = t
      BY <1>2, <2>2 DEF Documented
    <3> HIDE DEF t
    <3>3. Len(b) = l - 1 /\ \A j \in 1 .. l - 1 : b[j] = t[j]
      <4>1. Len(b) = l - 1
        BY <2>1, <2>2
      <4>2. ASSUME NEW j \in 1 .. l - 1 PROVE b[j] = t[j]
        <5>1. j <= m <=> j < m + 1
          BY <1>0
        <5>2. b[j] = IF j <= m THEN s[j] ELSE s[j + 1]
          BY <2>1, <4>1
        <5> QED BY <3>1, <5>1, <5>2
      <4> QED BY <4>1, <4>2
    <3>4. b = t
      BY <3>1, <3>3, SameSequence
    <3> QED BY <3>2, <3>4
  <2>3. CASE ~ (m < l)
    <3>1. \A j \in 1 .. l : b[j] = s[j]
      BY <1>0, <2>1, <2>3
    <3>2. b = s
      BY <2>1, <2>3, <3>1, SameSequence
    <3> QED BY <1>2, <2>3, <3>2 DEF Documented
  <2> QED BY <2>2, <2>3
<1>3. CASE c.op \in {"add", "prepend"}
  <2>1. /\ Len(b) = l + 1
        /\ \A j \in 1 .. l + 1 : b[j] = IF j <= m THEN s[j] ELSE IF j = m + 1 THEN x ELSE s[j - 1]
    BY <1>0, <1>3 DEF Copied
  <2>2. x \in Rules /\ x = c.rule /\ m < l
    BY <1>3 DEF Rule
  <2> DEFINE t == InsertAt(s, m + 1, x)
  <2>3. /\ t \in Seq(Rules) /\ Len(t) = l + 1
        /\ \A j \in 1 .. l + 1 :
             t[j] = IF j < m + 1 THEN s[j] ELSE IF j = m + 1 THEN x ELSE s[j - 1]
        /\ m + 1 = 1 => t = <<x>> \o s
    <3> HIDE DEF x
    <3> DEFINE at == m + 1
    <3>1. at \in 1 .. Len(s) /\ x \in Rules
      BY <1>0, <2>2
    <3> HIDE DEF at
    <3>2. /\ InsertAt(s, at, x) \in Seq(Rules) /\ Len(InsertAt(s, at, x)) = Len(s) + 1
          /\ \A j \in 1 .. Len(s) + 1 :
               InsertAt(s, at, x)[j] = IF j < at THEN s[j] ELSE IF j = at THEN x ELSE s[j - 1]
          /\ at = 1 => InsertAt(s, at, x) = <<x>> \o s
      BY ONLY s \in Seq(Rules), <3>1, InsertIs
    <3> QED BY <3>2 DEF at
  <2>4. Documented(c, s) = t
    <3>1. CASE c.op = "add"
      BY <2>2, <3>1 DEF Documented
    <3>2. CASE c.op = "prepend"
      BY <2>2, <2>3, <3>2 DEF Documented
    <3> QED BY <1>3, <3>1, <3>2
  <2> HIDE DEF t, x
  <2>5. b = t
    <3>1. \A j \in 1 .. l + 1 : b[j] = t[j]
      BY <1>0, <2>1, <2>3
    <3>2. Len(b) = Len(t) /\ Len(b) = l + 1
      BY <2>1, <2>3
    <3> QED BY <2>3, <3>1, <3>2, SameSequence
  <2> QED BY <2>4, <2>5
<1> QED
  BY <1>1, <1>2, <1>3 DEF Copied

-----------------------------------------------------------------------------
(* What a call can be.                                                     *)
LEMMA CallFacts ==
    ASSUME NEW p \in Procs, NEW c \in Calls[p]
    PROVE  /\ c.op \in {"attr", "replace", "add", "delete", "prepend", "append"}
           /\ c.nth \in Nat /\ (c.op = "prepend" => c.nth = 0)
           /\ c.op \in {"replace", "add", "prepend", "append"} => c.rule \in Rules
           /\ c.op = "attr" => \A rule \in Rules : [rule EXCEPT ![c.attr] = c.val] \in Rules
BY RulesAssumption

Domains ==
    /\ DOMAIN pc = Procs /\ DOMAIN call = Procs /\ DOMAIN num = Procs /\ DOMAIN i = Procs
    /\ DOMAIN new = Procs /\ DOMAIN nth = Procs /\ DOMAIN buf = Procs /\ DOMAIN start = Procs

(* The stack of q is not touched.                                          *)
Same(q) ==
    /\ pc'[q] = pc[q] /\ call'[q] = call[q] /\ num'[q] = num[q] /\ i'[q] = i[q]
    /\ new'[q] = new[q] /\ nth'[q] = nth[q] /\ buf'[q] = buf[q]

LEMMA SameTyped ==
    ASSUME NEW q \in Procs, Typed(q), Same(q)
    PROVE  Typed(q)'
BY DEF Typed, Same

LEMMA SameUndisturbed ==
    ASSUME NEW q \in Procs, Same(q), start'[q] = start[q], rules' = rules,
           start[q] # NoCall => Undisturbed(q)
    PROVE  start'[q] # NoCall => Undisturbed(q)'
BY DEF Undisturbed, Same

(* To keep the invariant, a step of p has to keep it for p, when it leaves *)
(* the stacks of the others alone, and the rules too or else tells them.   *)
LEMMA StepOf ==
    ASSUME RulesInv, NEW p \in Procs, Domains', \A q \in Procs \ {p} : Same(q),
           rules' \in Seq(Rules), StrLen(rules') < EZPLIB_BUF_LEN,
           \/ \A q \in Procs : start'[q] = NoCall
           \/ /\ rules' = rules /\ \A q \in Procs \ {p} : start'[q] = start[q]
              /\ start'[p] # NoCall => Undisturbed(p)',
           Typed(p)'
    PROVE  RulesInv'
<1>1. ASSUME NEW q \in Procs PROVE Typed(q)' /\ (start'[q] # NoCall => Undisturbed(q)')
  <2>1. CASE q = p  BY <2>1
  <2>2. CASE q # p
    BY <2>2, SameTyped, SameUndisturbed DEF RulesInv
  <2> QED BY <2>1, <2>2
<1> QED BY <1>1 DEF RulesInv, Domains

(* Nothing of p's call is left.                                            *)
LEMMA ReturnStep ==
    ASSUME RulesInv, NEW p \in Procs, Return(p)
    PROVE  /\ \A q \in Procs \ {p} : Same(q)
           /\ DOMAIN start' = Procs => Domains'
           /\ Typed(p)'
<1>1. Domains
  BY DEF RulesInv, Domains
<1>2. \A q \in Procs \ {p} : Same(q)
  BY <1>1 DEF Return, Same, Domains
<1>3. DOMAIN start' = Procs => Domains'
  BY <1>1 DEF Return, Domains
<1>4. /\ pc'[p] = "idle" /\ num'[p] = 0 /\ i'[p] = 0 /\ nth'[p] = 0 /\ buf'[p] = <<>>
  BY <1>1 DEF Return, Domains
<1>5. Typed(p)'
  BY <1>4, Lengths DEF Typed, Labels
<1> QED BY <1>2, <1>3, <1>5

LEMMA GiveUpStep ==
    ASSUME RulesInv, NEW p \in Procs, GiveUp(p), rules' = rules
    PROVE  RulesInv'
<1>1. DOMAIN start = Procs /\ start' = [start EXCEPT ![p] = NoCall] /\ Return(p)
  BY DEF RulesInv, GiveUp
<1>2. DOMAIN start' = Procs /\ start'[p] = NoCall /\ \A q \in Procs \ {p} : start'[q] = start[q]
  BY <1>1
<1>3. rules' \in Seq(Rules) /\ StrLen(rules') < EZPLIB_BUF_LEN
  BY DEF RulesInv
<1> QED BY <1>1, <1>2, <1>3, ReturnStep, StepOf

LEMMA StoreStep ==
    ASSUME RulesInv, NEW p \in Procs, NEW s \in Seq(Rules), StrLen(s) < EZPLIB_BUF_LEN, Store(p, s)
    PROVE  RulesInv'
<1>1. rules' = s /\ start' = [q \in Procs |-> NoCall] /\ Return(p)
  BY DEF Store
<1>2. DOMAIN start' = Procs /\ \A q \in Procs : start'[q] = NoCall
  BY <1>1
<1>3. rules' \in Seq(Rules) /\ StrLen(rules') < EZPLIB_BUF_LEN
  BY <1>1
<1> QED BY <1>1, <1>2, <1>3, ReturnStep, StepOf

-----------------------------------------------------------------------------
(* The steps that neither give up nor write.                               *)

LEMMA InvFacts ==
    ASSUME RulesInv, NEW p \in Procs
    PROVE  /\ Domains /\ rules \in Seq(Rules) /\ Len(rules) \in Nat /\ StrLen(rules) < EZPLIB_BUF_LEN
           /\ Typed(p) /\ (start[p] # NoCall => Undisturbed(p))
BY DEF RulesInv, Domains

LEMMA CallStep ==
    ASSUME RulesInv, NEW p \in Procs, NEW c \in Calls[p], Call(p, c)
    PROVE  RulesInv'
<1>1. Domains /\ Typed(p) /\ rules \in Seq(Rules) /\ StrLen(rules) < EZPLIB_BUF_LEN
  BY InvFacts
<1>2. \A q \in Procs \ {p} : Same(q) /\ start'[q] = start[q]
  BY <1>1 DEF Call, Goto, Same, Domains
<1>3. Domains' /\ rules' = rules
  BY <1>1 DEF Call, Goto, Domains
<1>4. /\ pc[p] = "idle" /\ call'[p] = c /\ new'[p] = c.rule /\ nth'[p] = c.nth /\ start'[p] = rules
      /\ num'[p] = num[p] /\ i'[p] = i[p] /\ buf'[p] = buf[p]
  BY <1>1 DEF Call, Goto, Domains
<1>5. /\ c.op \in {"attr", "replace", "add", "delete", "prepend", "append"} /\ c.nth \in Nat
      /\ c.op \in {"replace", "add", "prepend", "append"} => c.rule \in Rules
  BY CallFacts
<1>6. /\ c.op = "attr" => pc'[p] = "attr"
      /\ c.op \in {"replace", "add"} => pc'[p] = "check"
      /\ c.op \in {"delete", "prepend"} => pc'[p] = "count"
      /\ c.op = "append" => pc'[p] = "append"
  <2>1. pc'[p] = CASE c.op = "attr" -> "attr"
                 [] c.op \in {"replace", "add"} -> "check"
                 [] c.op \in {"delete", "prepend"} -> "count"
                 [] c.op = "append" -> "append"
    BY <1>1 DEF Call, Goto, Domains
  <2> QED BY <1>5, <2>1
<1>7. num[p] = 0 /\ i[p] = 0 /\ buf[p] = <<>>
  BY <1>1, <1>4 DEF Typed
<1>8. Typed(p)'
  BY <1>4, <1>5, <1>6, <1>7, Lengths DEF Typed, Labels, Place
<1>9. Undisturbed(p)'
  BY <1>3, <1>4, <1>5, <1>6 DEF Undisturbed, Rule
<1> QED BY <1>1, <1>2, <1>3, <1>8, <1>9, StepOf

LEMMA AttrStep ==
    ASSUME RulesInv, NEW p \in Procs, Attr(p)
    PROVE  RulesInv'
<1> DEFINE c == call[p]
           x == [rules[c.nth + 1] EXCEPT ![c.attr] = c.val]
<1>1. /\ Domains /\ Typed(p) /\ rules \in Seq(Rules) /\ Len(rules) \in Nat
      /\ StrLen(rules) < EZPLIB_BUF_LEN /\ (start[p] # NoCall => Undisturbed(p))
  BY InvFacts
<1>2. \A q \in Procs \ {p} : Same(q) /\ start'[q] = start[q]
  BY <1>1 DEF Attr, Goto, Same, Domains
<1>3. Domains' /\ rules' = rules
  BY <1>1 DEF Attr, Goto, Domains
<1>4. pc[p] = "attr" /\ nth[p] = c.nth /\ c \in Calls[p] /\ c.op = "attr"
  BY <1>1 DEF Attr, Typed, Place
<1>5. /\ pc'[p] = "check" /\ call'[p] = c /\ num'[p] = num[p] /\ i'[p] = i[p]
      /\ nth'[p] = nth[p] /\ buf'[p] = buf[p] /\ start'[p] = start[p] /\ new'[p] = x
      /\ c.nth < Len(rules)
  BY <1>1, <1>4 DEF Attr, Goto, Domains, Gettable
<1>6. c.nth \in Nat /\ x \in Rules
  <2>1. c.nth \in Nat
    BY <1>4, CallFacts
  <2>2. c.nth + 1 \in 1 .. Len(rules)
    BY <1>1, <1>5, <2>1
  <2>3. rules[c.nth + 1] \in Rules
    BY <1>1, <2>2
  <2> QED BY <1>4, <2>1, <2>3, CallFacts
<1>7. x = Rule(c, rules)
  BY <1>4 DEF Rule
<1> HIDE DEF c, x
<1>8. Typed(p)'
  BY <1>1, <1>4, <1>5, <1>6 DEF Typed, Labels, Place, c
<1>9. start'[p] # NoCall => Undisturbed(p)'
  BY <1>1, <1>3, <1>4, <1>5, <1>7 DEF Undisturbed, c
<1> QED BY <1>1, <1>2, <1>3, <1>8, <1>9, StepOf

LEMMA CheckStep ==
    ASSUME RulesInv, NEW p \in Procs, Check(p)
    PROVE  RulesInv'
<1>1. /\ Domains /\ Typed(p) /\ rules \in Seq(Rules) /\ Len(rules) \in Nat
      /\ StrLen(rules) < EZPLIB_BUF_LEN /\ (start[p] # NoCall => Undisturbed(p))
  BY InvFacts
<1>2. pc[p] = "check" /\ rules' = rules /\ nth[p] = call[p].nth /\ call[p] \in Calls[p]
  BY <1>1 DEF Check, Typed
<1>3. CASE nth[p] > Len(rules)
  BY <1>2, <1>3, GiveUpStep DEF Check
<1>4. CASE ~ (nth[p] > Len(rules))
  <2>1. /\ UNCHANGED <<call, new, num, i, nth, buf, start>>
        /\ pc' = [pc EXCEPT ![p] = IF call[p].op = "add" /\ nth[p] = Len(rules) THEN "append" ELSE "count"]
    BY <1>4 DEF Check, Goto
  <2>2. (\A q \in Procs \ {p} : Same(q) /\ start'[q] = start[q]) /\ Domains'
    BY <1>1, <2>1 DEF Same, Domains
  <2>3. call[p].nth \in Nat
    BY <1>2, CallFacts
  <2>4. CASE call[p].op = "add" /\ nth[p] = Len(rules)
    <3>1. pc'[p] = "append"
      BY <1>1, <2>1, <2>4 DEF Domains
    <3>2. Typed(p)'
      BY <1>1, <1>2, <2>1, <2>4, <3>1 DEF Typed, Labels, Place
    <3>3. start'[p] # NoCall => Undisturbed(p)'
      BY <1>1, <1>2, <2>1, <2>4, <3>1 DEF Undisturbed
    <3> QED BY <1>1, <1>2, <2>2, <3>2, <3>3, StepOf
  <2>5. CASE ~ (call[p].op = "add" /\ nth[p] = Len(rules))
    <3>1. pc'[p] = "count"
      BY <1>1, <2>1, <2>5 DEF Domains
    <3>2. Typed(p)'
      BY <1>1, <1>2, <2>1, <3>1 DEF Typed, Labels, Place
    <3>3. call[p].op = "add" => call[p].nth < Len(rules)
      BY <1>1, <1>2, <1>4, <2>3, <2>5
    <3>4. start'[p] # NoCall => Undisturbed(p)'
      BY <1>1, <1>2, <2>1, <3>1, <3>3 DEF Undisturbed
    <3> QED BY <1>1, <1>2, <2>2, <3>2, <3>4, StepOf
  <2> QED BY <2>4, <2>5
<1> QED BY <1>3, <1>4

LEMMA CountStep ==
    ASSUME RulesInv, NEW p \in Procs, Count(p)
    PROVE  RulesInv'
<1> DEFINE l == Len(rules)
<1>1. /\ Domains /\ Typed(p) /\ rules \in Seq(Rules) /\ l \in Nat
      /\ StrLen(rules) < EZPLIB_BUF_LEN /\ (start[p] # NoCall => Undisturbed(p))
  BY InvFacts
<1>2. (\A q \in Procs \ {p} : Same(q) /\ start'[q] = start[q]) /\ Domains' /\ rules' = rules
  BY <1>1 DEF Count, Goto, Same, Domains
<1>3. /\ pc[p] = "count" /\ pc'[p] = (IF l = 0 THEN "write" ELSE "fetch") /\ num'[p] = l
      /\ call'[p] = call[p] /\ i'[p] = i[p] /\ new'[p] = new[p] /\ nth'[p] = nth[p]
      /\ buf'[p] = buf[p] /\ start'[p] = start[p]
  BY <1>1 DEF Count, Goto, Domains
<1>4. /\ i[p] = 0 /\ nth[p] = call[p].nth /\ buf[p] = <<>> /\ call[p] \in Calls[p]
      /\ call[p].op \in {"attr", "replace", "add", "delete", "prepend"}
  BY <1>1, <1>3 DEF Typed, Place
<1>5. call[p].nth \in Nat
  BY <1>4, CallFacts
<1>6. l = 0 => rules = <<>>
  BY <1>1
<1> HIDE DEF l
<1>7. Typed(p)'
  BY <1>1, <1>3, <1>4 DEF Typed, Labels, Place
<1>8. Copied(call[p], rules, new[p], 0, nth[p], buf[p])
  <2>1. Len(<<>>) = 0 /\ \A j \in 1 .. 0 : FALSE
    OBVIOUS
  <2> QED BY <1>4, <1>5, <2>1 DEF Copied
<1>9. start'[p] # NoCall => Undisturbed(p)'
  <2>1. CASE l = 0
    BY <1>1, <1>2, <1>3, <1>6, <2>1 DEF Undisturbed
  <2>2. CASE l # 0
    BY <1>1, <1>2, <1>3, <1>4, <1>8, <2>2 DEF Undisturbed, l
  <2> QED BY <2>1, <2>2
<1> QED BY <1>1, <1>2, <1>7, <1>9, StepOf

LEMMA Append1Step ==
    ASSUME RulesInv, NEW p \in Procs, Append1(p)
    PROVE  RulesInv'
<1> DEFINE longer == Append(rules, new[p])
<1>1. /\ Domains /\ Typed(p) /\ rules \in Seq(Rules)
      /\ StrLen(rules) < EZPLIB_BUF_LEN /\ (start[p] # NoCall => Undisturbed(p))
  BY InvFacts
<1>2. /\ pc[p] = "append" /\ rules' = rules /\ call[p] \in Calls[p] /\ new[p] \in Rules
      /\ call[p].op \in {"add", "append"}
  BY <1>1 DEF Append1, Typed, Place
<1>3. CASE ~ (StrLen(longer) < EZPLIB_BUF_LEN)
  BY <1>2, <1>3, GiveUpStep DEF Append1
<1>4. CASE StrLen(longer) < EZPLIB_BUF_LEN
  <2>1. /\ UNCHANGED <<call, new, num, i, nth, start>>
        /\ pc' = [pc EXCEPT ![p] = "store"] /\ buf' = [buf EXCEPT ![p] = longer]
    BY <1>4 DEF Append1, Goto
  <2>2. (\A q \in Procs \ {p} : Same(q) /\ start'[q] = start[q]) /\ Domains'
    BY <1>1, <2>1 DEF Same, Domains
  <2>3. pc'[p] = "store" /\ buf'[p] = longer /\ longer \in Seq(Rules)
    BY <1>1, <1>2, <2>1 DEF Domains
  <2>4. start[p] # NoCall => longer = Documented(call[p], rules)
    <3> SUFFICES ASSUME start[p] # NoCall PROVE longer = Documented(call[p], rules)
      OBVIOUS
    <3>1. new[p] = call[p].rule /\ (call[p].op = "add" => call[p].nth = Len(rules))
      BY <1>1, <1>2 DEF Undisturbed, Rule
    <3>2. CASE call[p].op = "append"
      BY <3>1, <3>2 DEF Documented
    <3>3. CASE call[p].op = "add"
      <4> DEFINE l == Len(rules)
                 x == new[p]
      <4>1. Documented(call[p], rules) = SubSeq(rules, 1, l + 1 - 1) \o <<x>> \o SubSeq(rules, l + 1, l)
        <5>1. Documented(call[p], rules) = InsertAt(rules, call[p].nth + 1, call[p].rule)
          BY <3>3 DEF Documented
        <5>2. Documented(call[p], rules) = InsertAt(rules, l + 1, x)
          BY <3>1, <3>3, <5>1
        <5> QED BY <5>2 DEF InsertAt
      <4>2. l + 1 - 1 = l /\ SubSeq(rules, 1, l) = rules /\ SubSeq(rules, l + 1, l) = <<>>
        BY <1>1
      <4>3. rules \o <<x>> \o <<>> = longer
        BY <1>1, <1>2
      <4> QED BY <4>1, <4>2, <4>3
    <3> QED BY <1>2, <3>2, <3>3
  <2> HIDE DEF longer
  <2>5. Typed(p)'
    BY <1>1, <1>2, <1>4, <2>1, <2>3 DEF Typed, Labels, Place
  <2>6. start'[p] # NoCall => Undisturbed(p)'
    BY <1>1, <1>2, <2>1, <2>3, <2>4 DEF Undisturbed
  <2> QED BY <1>1, <1>2, <2>2, <2>5, <2>6, StepOf
<1> QED BY <1>3, <1>4

(* One round of the loop.                                                  *)
LEMMA FetchStep ==
    ASSUME RulesInv, NEW p \in Procs, Fetch(p)
    PROVE  RulesInv'
<1> DEFINE c == call[p]
           k == i[p]
           m == nth[p]
           b == buf[p]
           x == new[p]
           piece == Printed(p)
           adds == c.op \in {"add", "prepend"} /\ k = m
           next == IF adds THEN k ELSE k + 1
           mark == IF adds THEN -1 ELSE m
           label == IF next = num[p] THEN "write" ELSE "fetch"
<1>1. /\ Domains /\ Typed(p) /\ rules \in Seq(Rules) /\ Len(rules) \in Nat
      /\ StrLen(rules) < EZPLIB_BUF_LEN /\ (start[p] # NoCall => Undisturbed(p))
  BY InvFacts
<1>2. (\A q \in Procs \ {p} : Same(q) /\ start'[q] = start[q]) /\ Domains' /\ rules' = rules
  BY <1>1 DEF Fetch, Goto, Same, Domains
<1>3. /\ pc[p] = "fetch" /\ FitsBuf(b \o piece) /\ k < Len(rules)
      /\ pc'[p] = label /\ buf'[p] = b \o piece /\ i'[p] = next /\ nth'[p] = mark
      /\ call'[p] = c /\ new'[p] = x /\ num'[p] = num[p] /\ start'[p] = start[p]
  BY <1>1 DEF Fetch, Goto, Domains, Gettable
<1>4. /\ c \in Calls[p] /\ c.op \in {"attr", "replace", "add", "delete", "prepend"}
      /\ k \in Nat /\ num[p] \in Nat /\ k < num[p] /\ m \in Int /\ b \in Seq(Rules)
      /\ (c.op # "delete" => x \in Rules) /\ (m < 0 => c.op \in {"add", "prepend"})
  BY <1>1, <1>3 DEF Typed, Place
<1>5. /\ k # m => piece = <<rules[k + 1]>>
      /\ k = m /\ c.op = "delete" => piece = <<>>
      /\ k = m /\ c.op # "delete" => piece = <<x>>
  BY DEF Printed
<1>6. rules[k + 1] \in Rules
  BY <1>1, <1>3, <1>4
<1>7. b \o piece \in Seq(Rules)
  <2> HIDE DEF piece, k, m, b, x, c
  <2>1. CASE k # m
    <3>1. piece = <<rules[k + 1]>>
      BY <1>5, <2>1
    <3> QED BY <1>4, <1>6, <3>1, JoinedOne
  <2>2. CASE k = m /\ c.op = "delete"
    BY <1>4, <1>5, <2>2
  <2>3. CASE k = m /\ c.op # "delete"
    <3>1. piece = <<x>> /\ x \in Rules
      BY <1>4, <1>5, <2>3
    <3> QED BY <1>4, <3>1, JoinedOne
  <2> QED BY <2>1, <2>2, <2>3
<1>8. StrLen(b \o piece) < EZPLIB_BUF_LEN
  BY <1>3, <1>7, FitsLength
<1>9. next \in Nat /\ next <= num[p] /\ mark \in Int /\ (mark < 0 => c.op \in {"add", "prepend"})
  BY <1>4
<1>10. Typed(p)'
  <2> HIDE DEF next, mark, piece, b, x
  <2>1. label \in {"write", "fetch"} /\ (label = "fetch" => next < num[p])
    BY <1>4, <1>9
  <2> HIDE DEF label, c
  <2> QED BY <1>3, <1>4, <1>7, <1>8, <1>9, <2>1 DEF Typed, Labels, Place
<1>11. start'[p] # NoCall => Undisturbed(p)'
  <2> SUFFICES ASSUME start[p] # NoCall PROVE Undisturbed(p)'
    BY <1>3
  <2>1. /\ start[p] = rules /\ num[p] = Len(rules) /\ Copied(c, rules, x, k, m, b)
        /\ (c.op # "delete" => x = Rule(c, rules)) /\ (c.op \in {"attr", "add"} => c.nth < Len(rules))
    BY <1>1, <1>3 DEF Undisturbed
  <2>2. c.nth \in Nat /\ (c.op = "prepend" => c.nth = 0)
    BY <1>4, CallFacts
  <2>3. Copied(c, rules, x, next, mark, b \o piece)
    <3> DEFINE s == rules
    <3>0. /\ m # k => Copied(c, s, x, k + 1, m, b \o <<s[k + 1]>>)
          /\ m = k /\ c.op = "delete" => Copied(c, s, x, k + 1, m, b)
          /\ m = k /\ c.op \in {"attr", "replace"} /\ x \in Rules =>
               Copied(c, s, x, k + 1, m, b \o <<x>>)
          /\ m = k /\ c.op \in {"add", "prepend"} /\ x \in Rules =>
               Copied(c, s, x, k, -1, b \o <<x>>)
      <4> HIDE DEF c, k, m, b, x
      <4> QED BY <1>1, <1>3, <1>4, <2>1, <2>2, CopyRound
    <3> HIDE DEF piece, c, k, m, b, x
    <3>1. CASE k # m
      BY <1>5, <3>0, <3>1
    <3>2. CASE k = m /\ c.op = "delete"
      <4>1. b \o piece = b
        BY <1>4, <1>5, <3>2
      <4> QED BY <3>0, <3>2, <4>1
    <3>3. CASE k = m /\ c.op \in {"attr", "replace"}
      BY <1>4, <1>5, <3>0, <3>3
    <3>4. CASE k = m /\ c.op \in {"add", "prepend"}
      BY <1>4, <1>5, <3>0, <3>4
    <3> QED BY <1>4, <3>1, <3>2, <3>3, <3>4
  <2>4. CASE label = "fetch"
    <3> HIDE DEF next, mark, piece, label, b, x, c
    <3> QED BY <1>2, <1>3, <2>1, <2>3, <2>4 DEF Undisturbed, c
  <2>5. CASE label = "write"
    <3>1. next = Len(rules)
      BY <2>1, <2>5
    <3>2. c.op = "prepend" => c.nth < Len(rules)
      BY <1>1, <1>3, <1>4, <2>2
    <3>3. Rule(c, rules) \in Rules \/ c.op = "delete"
      BY <1>4, <2>1
    <3> DEFINE out == b \o piece
    <3>4. Copied(c, rules, Rule(c, rules), Len(rules), mark, out)
      <4>1. CASE c.op = "delete"
        <5> HIDE DEF next, mark, piece, b, x
        <5>1. \A y : Copied(c, rules, x, Len(rules), mark, out) => Copied(c, rules, y, Len(rules), mark, out)
          BY <4>1 DEF Copied
        <5> QED BY <2>3, <3>1, <5>1
      <4>2. CASE c.op # "delete"
        <5> HIDE DEF next, mark, piece, b, x
        <5> QED BY <2>1, <2>3, <3>1, <4>2
      <4> QED BY <4>1, <4>2
    <3>5. out = Documented(c, rules)
      <4> HIDE DEF next, mark, piece, b, x, c, out
      <4>1. out \in Seq(Rules)
        BY <1>7 DEF out
      <4>2. c.op \in {"attr", "add", "prepend"} => c.nth < Len(rules)
        BY <2>1, <3>2
      <4> QED BY <1>1, <2>2, <3>3, <3>4, <4>1, <4>2, CopyDone
    <3> HIDE DEF next, mark, piece, label, b, x, c
    <3> QED BY <1>2, <1>3, <2>1, <2>5, <3>5 DEF Undisturbed, c
  <2> QED BY <2>4, <2>5
<1> QED BY <1>1, <1>2, <1>10, <1>11, StepOf

-----------------------------------------------------------------------------
LEMMA RulesInit == Init => RulesInv
<1> SUFFICES ASSUME Init PROVE RulesInv
  OBVIOUS
<1>1. rules \in Seq(Rules) /\ StrLen(rules) < EZPLIB_BUF_LEN
  BY RulesAssumption DEF Init
<1>2. \A p \in Procs : Typed(p) /\ start[p] = NoCall
  BY Lengths DEF Init, Typed, Labels
<1> QED BY <1>1, <1>2 DEF RulesInv, Init

LEMMA RulesStep == RulesInv /\ [Next]_vars => RulesInv'
<1> SUFFICES ASSUME RulesInv, [Next]_vars PROVE RulesInv'
  OBVIOUS
<1>1. ASSUME NEW p \in Procs, Step(p) PROVE RulesInv'
  <2>1. CASE Attr(p)  BY <2>1, AttrStep
  <2>2. CASE AttrFails(p)  BY <2>2, GiveUpStep DEF AttrFails
  <2>3. CASE Check(p)  BY <2>3, CheckStep
  <2>4. CASE Count(p)  BY <2>4, CountStep
  <2>5. CASE Fetch(p)  BY <2>5, FetchStep
  <2>6. CASE FetchFails(p)  BY <2>6, GiveUpStep DEF FetchFails
  <2>7. CASE Write(p)
    <3>1. PICK s \in IF buf[p] = <<>> THEN {<<>>, <<Junk>>} ELSE {buf[p]} : Store(p, s)
      BY <2>7 DEF Write
    <3>2. buf[p] \in Seq(Rules) /\ StrLen(buf[p]) < EZPLIB_BUF_LEN
      BY InvFacts DEF Typed
    <3>3. s \in Seq(Rules) /\ StrLen(s) < EZPLIB_BUF_LEN
      BY <3>1, <3>2, Lengths
    <3> QED BY <3>1, <3>3, StoreStep
  <2>8. CASE Append1(p)  BY <2>8, Append1Step
  <2>9. CASE Append2(p)
    <3>1. buf[p] \in Seq(Rules) /\ StrLen(buf[p]) < EZPLIB_BUF_LEN
      BY InvFacts DEF Typed
    <3> QED BY <2>9, <3>1, StoreStep DEF Append2
  <2> QED BY <1>1, <2>1, <2>2, <2>3, <2>4, <2>5, <2>6, <2>7, <2>8, <2>9 DEF Step
<1>2. ASSUME NEW p \in Procs, NEW c \in Calls[p], Call(p, c) PROVE RulesInv'
  BY <1>2, CallStep
<1>3. CASE UNCHANGED vars
  BY <1>3 DEF vars, RulesInv, Typed, Undisturbed
<1> QED
  BY <1>1, <1>2, <1>3 DEF Next

LEMMA RulesAlways == Spec => []RulesInv
BY RulesInit, RulesStep, PTL DEF Spec

(* The variable never outgrows the buffers it is copied into, whatever the *)
(* processes do, and the loop index of ezplib_op_rule stays below the      *)
(* count it took.                                                          *)
THEOREM TypeCorrect == Spec => []TypeOK
<1>1. RulesInv => TypeOK
  BY DEF RulesInv, Typed, Labels, TypeOK
<1> QED
  BY <1>1, RulesAlways, PTL

(* A call that nobody interferes with does what its documentation says,    *)
(* for every function, every position and any number of rules.             *)
THEOREM CallsCorrect == Spec => CallExact
<1> DEFINE Exact(p) ==
         /\ Stores(p) /\ start[p] # NoCall
         /\ start[p] # <<>> \/ call[p].op \in {"append", "add"}
         /\ Documented(call[p], start[p]) # <<>>
         => rules' = Documented(call[p], start[p])
<1>1. RulesInv /\ [Next]_vars => [\A p \in Procs : Exact(p)]_vars
  <2> SUFFICES ASSUME RulesInv, Next, NEW p \in Procs,
                      Stores(p), start[p] # NoCall,
                      start[p] # <<>> \/ call[p].op \in {"append", "add"},
                      Documented(call[p], start[p]) # <<>>
               PROVE  rules' = Documented(call[p], start[p])
    OBVIOUS
  <2>1. /\ Domains /\ Typed(p) /\ Undisturbed(p) /\ rules \in Seq(Rules)
    BY InvFacts
  <2>2. pc[p] \in {"write", "store"} /\ pc'[p] = "idle" /\ start[p] = rules
    BY <2>1 DEF Stores, Undisturbed
  <2>3. Write(p) \/ Append2(p)
    <3>1. PICK q \in Procs : Step(q) \/ \E c \in Calls[q] : Call(q, c)
      BY DEF Next
    <3>2. CASE q = p
      BY <2>2, <3>1, <3>2 DEF Step, Attr, AttrFails, Check, Count, Fetch, FetchFails, Append1, Call
    <3>3. CASE q # p
      <4>1. pc'[p] = pc[p]
        BY <2>1, <3>1, <3>3
        DEF Step, Attr, AttrFails, Check, Count, Fetch, FetchFails, Append1, Append2, Write,
            Call, Goto, GiveUp, Return, Store, Domains
      <4> QED BY <2>2, <4>1
    <3> QED BY <3>2, <3>3
  <2>4. CASE Write(p)
    <3>1. pc[p] = "write" /\ call[p].op # "append"
      BY <2>1, <2>4 DEF Write, Typed, Place
    <3>2. rules # <<>>
      <4>1. SUFFICES ASSUME rules = <<>> PROVE FALSE
        OBVIOUS
      <4>2. call[p].op = "add" /\ call[p].nth < Len(rules) /\ call[p] \in Calls[p]
        BY <2>1, <2>2, <3>1, <4>1 DEF Undisturbed, Typed
      <4>3. call[p].nth \in Nat /\ Len(rules) = 0
        BY <4>1, <4>2, CallFacts
      <4> QED BY <4>2, <4>3
    <3>3. buf[p] = Documented(call[p], rules)
      BY <2>1, <3>1, <3>2 DEF Undisturbed
    <3>4. Store(p, buf[p])
      BY <2>2, <2>4, <3>3 DEF Write
    <3> QED BY <2>2, <3>3, <3>4 DEF Store
  <2>5. CASE Append2(p)
    <3>1. buf[p] = Documented(call[p], rules)
      BY <2>1, <2>5 DEF Undisturbed, Append2
    <3> QED BY <2>2, <2>5, <3>1 DEF Append2, Store
  <2> QED BY <2>3, <2>4, <2>5
<1> QED
  BY <1>1, RulesAlways, PTL DEF Spec, CallExact
=============================================================================
