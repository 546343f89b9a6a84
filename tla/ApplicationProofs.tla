-------------------------- MODULE ApplicationProofs --------------------------
(***************************************************************************)
(* The program, proved for every set of command lines and every workspace: *)
(* what ParseInput makes of a command line, which parameters a free fit    *)
(* lets move, and what the check of the keys and the exit status are worth.*)
(***************************************************************************)
EXTENDS Application, WorkspaceProofs, Induction

-----------------------------------------------------------------------------
(***************************************************************************)
(* The command line: the loop of ParseInput, by induction over the words.  *)
(***************************************************************************)
Fields == {"ops", "keys", "parsed"}

\* Where the keys are among the first n words, and the words i + 1 .. q.
Written(tokens, n) == {i \in 1 .. n : tokens[i].dashed}
Texts(tokens, i, q) == [j \in 1 .. q - i |-> tokens[i + j].text]

\* A key begins at each of these places, and before the first word one that
\* has the name of this word.
Opens(tokens, i) == i = 0 \/ tokens[i].dashed
NameAt(tokens, i) == tokens[IF i = 0 THEN 1 ELSE i].text

\* No key begins between the places i and q.
NoneBetween(tokens, i, q) == \A j \in i + 1 .. q - 1 : ~ tokens[j].dashed

\* The key at place i is the last of its name before place c, and the next
\* key is at place q.
Complete(tokens, i, q, c) ==
  /\ i < q /\ q =< c
  /\ Opens(tokens, i) /\ tokens[q].dashed
  /\ NoneBetween(tokens, i, q)
  /\ \A j \in i + 1 .. c - 1 : tokens[j].dashed => tokens[j].text # NameAt(tokens, i)

\* The loop of ParseInput after n words, of which the one at place c is the
\* last key.
LoopAt(tokens, n, c, key, vals, opts) ==
  /\ c \in 0 .. n
  /\ Opens(tokens, c) /\ NoneBetween(tokens, c, n + 1)
  /\ key = NameAt(tokens, c)
  /\ vals = Texts(tokens, c, n)
  /\ DOMAIN opts = Fields
  /\ opts.parsed = {tokens[i].text : i \in Written(tokens, n)}
  /\ opts.parsed \subseteq opts.keys
  /\ opts.keys \cup {key} = {tokens[1].text} \cup opts.parsed
  /\ DOMAIN opts.ops \cup {key} = opts.keys \cup {key}
  /\ \A k \in DOMAIN opts.ops : opts.ops[k] \in Seq(STRING)
  /\ \A i \in 0 .. n, q \in 1 .. n :
       Complete(tokens, i, q, c) =>
         /\ NameAt(tokens, i) \in DOMAIN opts.ops
         /\ opts.ops[NameAt(tokens, i)] = Texts(tokens, i, q - 1)

\* A word has a text and may have dashes.
LEMMA TokenAt ==
  ASSUME NEW tokens \in Seq(Token), NEW i \in 1 .. Len(tokens)
  PROVE  tokens[i].text \in STRING /\ tokens[i].dashed \in BOOLEAN
<1>1. tokens[i] \in Token
  OBVIOUS
<1> QED
  BY <1>1 DEF Token

\* Words are a sequence of texts, and one more is appended.
LEMMA TextsAreWords ==
  ASSUME NEW tokens \in Seq(Token), NEW q \in 0 .. Len(tokens), NEW i \in 0 .. q
  PROVE  Texts(tokens, i, q) \in Seq(STRING) /\ Len(Texts(tokens, i, q)) = q - i
<1>1. ASSUME NEW j \in 1 .. q - i PROVE tokens[i + j].text \in STRING
  <2>1. i + j \in 1 .. Len(tokens)
    OBVIOUS
  <2> QED
    BY <2>1, TokenAt
<1>2. q - i \in Nat
  OBVIOUS
<1> DEFINE n == q - i
<1>3. Texts(tokens, i, q) = [j \in 1 .. n |-> tokens[i + j].text]
  BY DEF Texts
<1> HIDE DEF n
<1>4. n \in Nat /\ \A j \in 1 .. n : tokens[i + j].text \in STRING
  BY <1>1, <1>2 DEF n
<1>5. Texts(tokens, i, q) \in Seq(STRING) /\ Len(Texts(tokens, i, q)) = n
  BY <1>3, <1>4
<1> QED
  BY <1>5 DEF n

LEMMA TextsAppend ==
  ASSUME NEW tokens \in Seq(Token), NEW n \in Nat, n + 1 =< Len(tokens), NEW c \in 0 .. n
  PROVE  Append(Texts(tokens, c, n), tokens[n + 1].text) = Texts(tokens, c, n + 1)
<1>1. Texts(tokens, c, n) \in Seq(STRING) /\ Len(Texts(tokens, c, n)) = n - c
  <2>1. n \in 0 .. Len(tokens)
    OBVIOUS
  <2> QED
    BY <2>1, TextsAreWords
<1>2. c + (n + 1 - c) = n + 1
  OBVIOUS
<1> QED
  BY <1>1, <1>2 DEF Texts

\* The two updates, field by field.
LEMMA RegisterPoint ==
  ASSUME NEW opts, DOMAIN opts = Fields, NEW key, NEW vals
  PROVE  /\ DOMAIN Register(opts, key, vals) = Fields
         /\ Register(opts, key, vals).ops = WithValues(opts.ops, key, vals)
         /\ Register(opts, key, vals).keys = opts.keys \cup {key}
         /\ Register(opts, key, vals).parsed = opts.parsed
BY DEF Register, Fields

LEMMA AddKeyPoint ==
  ASSUME NEW opts, DOMAIN opts = Fields, NEW key
  PROVE  /\ DOMAIN AddKey(opts, key) = Fields
         /\ AddKey(opts, key).ops = opts.ops
         /\ AddKey(opts, key).keys = opts.keys \cup {key}
         /\ AddKey(opts, key).parsed = opts.parsed \cup {key}
BY DEF AddKey, Fields

\* Before the first word.
LEMMA LoopBegins ==
  ASSUME NEW tokens \in Seq(Token), tokens # <<>>
  PROVE  LoopAt(tokens, 0, 0, Begin(tokens).key, Begin(tokens).vals, Begin(tokens).args)
<1>1. Texts(tokens, 0, 0) = <<>>
  BY DEF Texts
<1>2. Written(tokens, 0) = {}
  BY DEF Written
<1> QED
  BY <1>1, <1>2
     DEF LoopAt, Begin, NoArguments, Complete, Fields, Opens, NoneBetween, NameAt

\* A value.
LEMMA LoopTakesValue ==
  ASSUME NEW tokens \in Seq(Token), NEW n \in Nat, n + 1 =< Len(tokens),
         NEW c, NEW key, NEW vals, NEW opts, LoopAt(tokens, n, c, key, vals, opts),
         ~ tokens[n + 1].dashed
  PROVE  LoopAt(tokens, n + 1, c, key, Append(vals, tokens[n + 1].text), opts)
<1>1. c \in 0 .. n /\ c \in 0 .. n + 1 /\ vals = Texts(tokens, c, n)
  BY DEF LoopAt
<1>2. Append(vals, tokens[n + 1].text) = Texts(tokens, c, n + 1)
  BY <1>1, TextsAppend
<1>3. Written(tokens, n + 1) = Written(tokens, n)
  BY DEF Written
<1>4. NoneBetween(tokens, c, (n + 1) + 1)
  BY <1>1 DEF LoopAt, NoneBetween
<1>5. \A i \in 0 .. n + 1, q \in 1 .. n + 1 :
        Complete(tokens, i, q, c) => i \in 0 .. n /\ q \in 1 .. n
  BY <1>1 DEF Complete
<1> QED
  BY <1>1, <1>2, <1>3, <1>4, <1>5 DEF LoopAt

\* A key.
LEMMA LoopTakesKey ==
  ASSUME NEW tokens \in Seq(Token), NEW n \in Nat, n + 1 =< Len(tokens),
         NEW c, NEW key, NEW vals, NEW opts, LoopAt(tokens, n, c, key, vals, opts),
         tokens[n + 1].dashed
  PROVE  LoopAt(tokens, n + 1, n + 1, tokens[n + 1].text, <<>>,
                AddKey(Register(opts, key, vals), tokens[n + 1].text))
<1> DEFINE t == tokens[n + 1].text
           next == AddKey(Register(opts, key, vals), t)
<1>1. /\ next.ops = WithValues(opts.ops, key, vals)
      /\ next.keys = opts.keys \cup {key} \cup {t}
      /\ next.parsed = opts.parsed \cup {t}
      /\ DOMAIN next = Fields
  <2>1. DOMAIN opts = Fields
    BY DEF LoopAt
  <2>2. DOMAIN Register(opts, key, vals) = Fields
    BY <2>1, RegisterPoint
  <2> QED
    BY <2>1, <2>2, RegisterPoint, AddKeyPoint
<1>2. /\ DOMAIN next.ops = DOMAIN opts.ops \cup {key}
      /\ next.ops[key] = vals
      /\ \A k \in DOMAIN opts.ops : k # key => next.ops[k] = opts.ops[k]
  BY <1>1 DEF WithValues
<1> HIDE DEF next
<1>3. c \in 0 .. n /\ vals = Texts(tokens, c, n) /\ vals \in Seq(STRING)
  <2>1. n \in 0 .. Len(tokens) /\ c \in 0 .. n /\ vals = Texts(tokens, c, n)
    BY DEF LoopAt
  <2> QED
    BY <2>1, TextsAreWords
<1>4. Texts(tokens, n + 1, n + 1) = <<>>
  BY DEF Texts
<1>5. Written(tokens, n + 1) = Written(tokens, n) \cup {n + 1}
  BY DEF Written
<1>6. next.parsed = {tokens[i].text : i \in Written(tokens, n + 1)}
  BY <1>1, <1>5 DEF LoopAt
<1>7. /\ next.parsed \subseteq next.keys
      /\ next.keys \cup {t} = {tokens[1].text} \cup next.parsed
      /\ DOMAIN next.ops \cup {t} = next.keys \cup {t}
  BY <1>1, <1>2 DEF LoopAt
<1>8. \A k \in DOMAIN next.ops : next.ops[k] \in Seq(STRING)
  BY <1>2, <1>3 DEF LoopAt
<1>9. ASSUME NEW i \in 0 .. n + 1, NEW q \in 1 .. n + 1, Complete(tokens, i, q, n + 1)
      PROVE  /\ NameAt(tokens, i) \in DOMAIN next.ops
             /\ next.ops[NameAt(tokens, i)] = Texts(tokens, i, q - 1)
  <2>1. /\ i < q /\ Opens(tokens, i) /\ tokens[q].dashed
        /\ \A j \in i + 1 .. q - 1 : ~ tokens[j].dashed
        /\ \A j \in i + 1 .. n : tokens[j].dashed => tokens[j].text # NameAt(tokens, i)
    BY <1>9 DEF Complete, NoneBetween
  <2>2. i =< c /\ Opens(tokens, c) /\ key = NameAt(tokens, c)
    BY <1>3, <2>1 DEF LoopAt, NoneBetween, Opens
  <2>3. CASE q = n + 1
    <3>1. c = i
      BY <1>3, <2>1, <2>2, <2>3 DEF Opens
    <3> QED
      BY <1>2, <1>3, <2>2, <2>3, <3>1
  <2>4. CASE q # n + 1
    <3>1. q \in 1 .. n /\ i \in 0 .. n /\ q =< c /\ c # 0
      BY <1>3, <2>1, <2>4 DEF LoopAt, NoneBetween
    <3>2. Complete(tokens, i, q, c)
      BY <1>3, <2>1, <3>1 DEF Complete, NoneBetween
    <3>3. /\ NameAt(tokens, i) \in DOMAIN opts.ops
          /\ opts.ops[NameAt(tokens, i)] = Texts(tokens, i, q - 1)
      BY <3>1, <3>2 DEF LoopAt
    <3>4. NameAt(tokens, i) # key
      <4>1. c \in i + 1 .. n /\ tokens[c].dashed /\ key = tokens[c].text
        BY <1>3, <2>1, <2>2, <3>1 DEF Opens, NameAt
      <4> QED
        BY <2>1, <4>1
    <3> QED
      BY <1>2, <3>3, <3>4
  <2> QED
    BY <2>3, <2>4
<1>10. /\ NoneBetween(tokens, n + 1, (n + 1) + 1)
       /\ n + 1 \in 0 .. n + 1
       /\ Opens(tokens, n + 1) /\ t = NameAt(tokens, n + 1)
  BY DEF NoneBetween, Opens, NameAt
<1>11. LoopAt(tokens, n + 1, n + 1, t, <<>>, next)
  BY <1>1, <1>4, <1>6, <1>7, <1>8, <1>9, <1>10 DEF LoopAt
<1> QED
  BY <1>11 DEF next

\* The loop as a function of the number of words.
IsLoop(tokens, loop, n) ==
  loop = [m \in 0 .. n |-> IF m = 0 THEN Begin(tokens) ELSE Step(loop[m - 1], tokens[m])]

\* There is such a function, one word at a time ...
LEMMA LoopExists ==
  ASSUME NEW tokens \in Seq(Token)
  PROVE  \A n \in Nat : \E loop : IsLoop(tokens, loop, n)
<1> DEFINE S == {n \in Nat : \E loop : IsLoop(tokens, loop, n)}
<1>1. 0 \in S
  <2>1. IsLoop(tokens, [m \in 0 .. 0 |-> Begin(tokens)], 0)
    BY DEF IsLoop
  <2> QED
    BY <2>1
<1>2. ASSUME NEW n \in Nat, n \in S PROVE n + 1 \in S
  <2>1. PICK loop : IsLoop(tokens, loop, n)
    BY <1>2
  <2> DEFINE more == [m \in 0 .. n + 1 |->
                        IF m = 0 THEN Begin(tokens) ELSE Step(loop[m - 1], tokens[m])]
  <2>2. \A m \in 0 .. n : more[m] = loop[m]
    BY <2>1 DEF IsLoop
  <2>3. ASSUME NEW m \in 0 .. n + 1, m # 0 PROVE more[m - 1] = loop[m - 1]
    <3>1. m - 1 \in 0 .. n
      BY <2>3
    <3> QED
      BY ONLY <2>2, <3>1
  <2>4. IsLoop(tokens, more, n + 1)
    BY <2>3 DEF IsLoop
  <2> HIDE DEF more
  <2> QED
    BY <2>4
<1> HIDE DEF S
<1>3. \A n \in Nat : n \in S
  BY <1>1, <1>2, SetInduction
<1> QED
  BY <1>3 DEF S

\* ... so that ParseInput is what it says.
LEMMA ParseInputIsLoop ==
  ASSUME NEW tokens \in Seq(Token), tokens # <<>>
  PROVE  \E loop : /\ IsLoop(tokens, loop, Len(tokens))
                   /\ LET end == loop[Len(tokens)]
                      IN ParseInput(tokens) = Register(AddKey(end.args, end.key), end.key, end.vals)
<1> DEFINE loop == CHOOSE f : IsLoop(tokens, f, Len(tokens))
<1>1. IsLoop(tokens, loop, Len(tokens))
  <2>1. Len(tokens) \in Nat
    OBVIOUS
  <2>2. \E f : IsLoop(tokens, f, Len(tokens))
    BY <2>1, LoopExists
  <2> QED
    BY <2>2, Zenon
<1>2. ParseInput(tokens) =
        LET end == loop[Len(tokens)]
        IN Register(AddKey(end.args, end.key), end.key, end.vals)
  BY DEF ParseInput, IsLoop
<1> HIDE DEF loop
<1> QED
  BY <1>1, <1>2

\* What is known of the loop holds after every word.
LEMMA LoopHolds ==
  ASSUME NEW tokens \in Seq(Token), tokens # <<>>,
         NEW loop, IsLoop(tokens, loop, Len(tokens))
  PROVE  \E c : LoopAt(tokens, Len(tokens), c,
                       loop[Len(tokens)].key, loop[Len(tokens)].vals, loop[Len(tokens)].args)
<1> DEFINE Holds(n) == /\ DOMAIN loop[n] = {"key", "vals", "args"}
                       /\ \E c : LoopAt(tokens, n, c, loop[n].key, loop[n].vals, loop[n].args)
           S == {n \in Nat : n =< Len(tokens) => Holds(n)}
<1>0. Len(tokens) \in Nat
  OBVIOUS
<1>1. 0 \in S
  <2>1. loop[0] = Begin(tokens)
    BY <1>0 DEF IsLoop
  <2>2. DOMAIN loop[0] = {"key", "vals", "args"}
    BY <2>1 DEF Begin
  <2> QED
    BY <2>1, <2>2, LoopBegins
<1>2. ASSUME NEW n \in Nat, n \in S PROVE n + 1 \in S
  <2> SUFFICES ASSUME n + 1 =< Len(tokens) PROVE Holds(n + 1)
    OBVIOUS
  <2>1. Holds(n)
    BY <1>0, <1>2
  <2>2. loop[n + 1] = Step(loop[n], tokens[n + 1])
    <3>1. n + 1 \in 0 .. Len(tokens) /\ n + 1 # 0 /\ (n + 1) - 1 = n
      BY <1>0
    <3> QED
      BY <3>1 DEF IsLoop
  <2>3. PICK c : LoopAt(tokens, n, c, loop[n].key, loop[n].vals, loop[n].args)
    BY <2>1
  <2>4. CASE tokens[n + 1].dashed
    <3>1. /\ loop[n + 1].key = tokens[n + 1].text /\ loop[n + 1].vals = <<>>
          /\ loop[n + 1].args = AddKey(Register(loop[n].args, loop[n].key, loop[n].vals),
                                       tokens[n + 1].text)
          /\ DOMAIN loop[n + 1] = {"key", "vals", "args"}
      BY <2>2, <2>4 DEF Step
    <3> QED
      BY <2>3, <2>4, <3>1, LoopTakesKey
  <2>5. CASE ~ tokens[n + 1].dashed
    <3>1. /\ loop[n + 1].key = loop[n].key /\ loop[n + 1].args = loop[n].args
          /\ loop[n + 1].vals = Append(loop[n].vals, tokens[n + 1].text)
          /\ DOMAIN loop[n + 1] = {"key", "vals", "args"}
      BY <2>1, <2>2, <2>5 DEF Step
    <3> QED
      BY <2>3, <2>5, <3>1, LoopTakesValue
  <2> QED
    BY <2>4, <2>5
<1> HIDE DEF S
<1>3. \A n \in Nat : n \in S
  BY <1>1, <1>2, SetInduction
<1> QED
  BY <1>0, <1>3 DEF S

\* The key at place i is the last of its name, and the next key, or the end,
\* is at place q.
LastOf(tokens, i, q) ==
  /\ i \in 0 .. Len(tokens) /\ q \in i + 1 .. Len(tokens) + 1
  /\ Opens(tokens, i) /\ NoneBetween(tokens, i, q)
  /\ q = Len(tokens) + 1 \/ tokens[q].dashed
  /\ \A j \in i + 1 .. Len(tokens) : tokens[j].dashed => tokens[j].text # NameAt(tokens, i)

\* A key has a last occurrence, behind which there is another key or the end.
LEMMA LastKey ==
  ASSUME NEW tokens \in Seq(Token), NEW i \in 0 .. Len(tokens), Opens(tokens, i)
  PROVE  \E j \in i .. Len(tokens), q \in 1 .. Len(tokens) + 1 :
           LastOf(tokens, j, q) /\ NameAt(tokens, j) = NameAt(tokens, i)
<1> DEFINE len == Len(tokens)
           same == {j \in i .. len : Opens(tokens, j) /\ NameAt(tokens, j) = NameAt(tokens, i)}
           before == {n \in Nat : n =< len /\ len - n \in same}
<1>1. len \in Nat /\ i \in same
  OBVIOUS
<1>2. before \subseteq Nat /\ before # {}
  <2>1. len - i \in Nat /\ len - i =< len /\ len - (len - i) = i
    BY <1>1
  <2> QED
    BY <1>1, <2>1
<1>3. PICK n \in before : \A m \in before : n =< m
  <2> HIDE DEF before
  <2> QED
    BY <1>2, LeastNumber
<1> DEFINE j == len - n
<1>4. j \in same /\ j \in 0 .. len
  BY <1>1, <1>3
<1>5. \A k \in same : k =< j
  <2> SUFFICES ASSUME NEW k \in same PROVE k =< j
    OBVIOUS
  <2>1. k \in i .. len /\ len - k \in Nat /\ len - k =< len /\ len - (len - k) = k
    BY <1>1
  <2>2. len - k \in before
    BY <2>1
  <2>3. n =< len - k
    BY ONLY <1>3, <2>2
  <2>4. n \in Nat
    OBVIOUS
  <2> QED
    BY <1>1, <2>1, <2>3, <2>4
<1> DEFINE ends == {q \in j + 1 .. len + 1 : q = len + 1 \/ tokens[q].dashed}
<1>6. ends \subseteq Nat /\ ends # {}
  <2>1. len + 1 \in j + 1 .. len + 1
    BY <1>1, <1>4
  <2> QED
    BY <1>1, <1>4, <2>1
<1>7. PICK q \in ends : \A p \in ends : q =< p
  <2> HIDE DEF ends
  <2> QED
    BY <1>6, LeastNumber
<1>8. NoneBetween(tokens, j, q)
  <2> SUFFICES ASSUME NEW k \in j + 1 .. q - 1, tokens[k].dashed PROVE FALSE
    BY DEF NoneBetween
  <2>1. k \in ends
    BY <1>1, <1>4, <1>7
  <2> QED
    BY <1>1, <1>4, <1>7, <2>1
<1>9. \A k \in j + 1 .. len : tokens[k].dashed => tokens[k].text # NameAt(tokens, j)
  <2> SUFFICES ASSUME NEW k \in j + 1 .. len, tokens[k].dashed,
                      tokens[k].text = NameAt(tokens, j)
               PROVE  FALSE
    OBVIOUS
  <2>1. k \in i .. len /\ k > j /\ Opens(tokens, k) /\ NameAt(tokens, k) = NameAt(tokens, i)
    BY <1>1, <1>4 DEF Opens, NameAt
  <2> QED
    BY <1>1, <1>4, <1>5, <2>1
<1>10. j \in i .. len /\ j \in 0 .. len /\ q \in j + 1 .. len + 1 /\ q \in 1 .. len + 1
       /\ (q = len + 1 \/ tokens[q].dashed)
       /\ Opens(tokens, j) /\ NameAt(tokens, j) = NameAt(tokens, i)
  BY <1>1, <1>4, <1>7
<1> HIDE DEF j
<1>11. LastOf(tokens, j, q)
  BY <1>8, <1>9, <1>10 DEF LastOf
<1> QED
  BY <1>10, <1>11

\* What ParseInput makes of a command line, for any number of words.
LEMMA ParseInputRight ==
  ASSUME NEW tokens \in Seq(Token), tokens # <<>>,
         NEW opts, opts = ParseInput(tokens)
  PROVE  /\ DOMAIN opts = Fields
         /\ opts.keys = {tokens[1].text} \cup {tokens[i].text : i \in Written(tokens, Len(tokens))}
         /\ DOMAIN opts.ops = opts.keys
         /\ \A k \in opts.keys : opts.ops[k] \in Seq(STRING)
         /\ opts.parsed \subseteq opts.keys
         /\ Written(tokens, Len(tokens)) # {} =>
              opts.parsed = {tokens[i].text : i \in Written(tokens, Len(tokens))}
         /\ \A i, q : LastOf(tokens, i, q) =>
              opts.ops[NameAt(tokens, i)] = Texts(tokens, i, q - 1)
<1> DEFINE len == Len(tokens)
<1>1. PICK loop : /\ IsLoop(tokens, loop, len)
                  /\ opts = LET end == loop[len]
                              IN Register(AddKey(end.args, end.key), end.key, end.vals)
  BY ParseInputIsLoop
<1> DEFINE key == loop[len].key
           vals == loop[len].vals
           before == loop[len].args
<1>2. PICK c : LoopAt(tokens, len, c, key, vals, before)
  BY <1>1, LoopHolds
<1>3. opts = Register(AddKey(before, key), key, vals)
  BY <1>1
<1> HIDE DEF key, vals, before
<1>4. /\ DOMAIN opts = Fields
      /\ opts.ops = WithValues(before.ops, key, vals)
      /\ opts.keys = before.keys \cup {key}
      /\ opts.parsed = before.parsed \cup {key}
  <2>1. DOMAIN before = Fields
    BY <1>2 DEF LoopAt
  <2>2. DOMAIN AddKey(before, key) = Fields
    BY <2>1, AddKeyPoint
  <2> QED
    BY <1>3, <2>1, <2>2, AddKeyPoint, RegisterPoint
<1>5. /\ DOMAIN opts.ops = DOMAIN before.ops \cup {key}
      /\ opts.ops[key] = vals
      /\ \A k \in DOMAIN before.ops : k # key => opts.ops[k] = before.ops[k]
  BY <1>4 DEF WithValues
<1>6. /\ len \in Nat /\ c \in 0 .. len /\ Opens(tokens, c) /\ key = NameAt(tokens, c)
      /\ NoneBetween(tokens, c, len + 1) /\ vals = Texts(tokens, c, len)
  BY <1>2 DEF LoopAt
<1>7. vals \in Seq(STRING)
  <2>1. len \in 0 .. Len(tokens)
    BY <1>6
  <2> QED
    BY <1>6, <2>1, TextsAreWords
<1>8. opts.keys = {tokens[1].text} \cup {tokens[i].text : i \in Written(tokens, len)}
      /\ DOMAIN opts.ops = opts.keys
      /\ opts.parsed \subseteq opts.keys
      /\ \A k \in opts.keys : opts.ops[k] \in Seq(STRING)
  BY <1>2, <1>4, <1>5, <1>7 DEF LoopAt
<1>9. ASSUME Written(tokens, len) # {}
      PROVE  opts.parsed = {tokens[i].text : i \in Written(tokens, len)}
  <2>1. c # 0
    BY <1>6, <1>9 DEF Written, NoneBetween
  <2>2. c \in Written(tokens, len) /\ key = tokens[c].text
    BY <1>6, <2>1 DEF Written, Opens, NameAt
  <2>3. before.parsed = {tokens[i].text : i \in Written(tokens, len)}
    BY <1>2 DEF LoopAt
  <2> QED
    BY <1>4, <2>2, <2>3
<1>10. ASSUME NEW i, NEW q, LastOf(tokens, i, q)
       PROVE  opts.ops[NameAt(tokens, i)] = Texts(tokens, i, q - 1)
  <2>1. /\ i \in 0 .. len /\ q \in i + 1 .. len + 1 /\ Opens(tokens, i)
        /\ q = len + 1 \/ tokens[q].dashed
        /\ \A j \in i + 1 .. q - 1 : ~ tokens[j].dashed
        /\ \A j \in i + 1 .. len : tokens[j].dashed => tokens[j].text # NameAt(tokens, i)
    BY <1>10 DEF LastOf, NoneBetween
  <2>2. i =< c
    BY <1>6, <2>1 DEF NoneBetween, Opens
  <2>3. CASE i = c
    <3>1. q = len + 1
      BY <1>6, <2>1, <2>3 DEF NoneBetween
    <3>2. q - 1 = len
      BY <1>6, <3>1
    <3> QED
      BY <1>5, <1>6, <2>3, <3>2
  <2>4. CASE i # c
    <3>1. c # 0 /\ c \in i + 1 .. len /\ tokens[c].dashed /\ key = tokens[c].text
      BY <1>6, <2>1, <2>2, <2>4 DEF Opens, NameAt
    <3>2. q =< c /\ q \in 1 .. len /\ tokens[q].dashed
      BY <1>6, <2>1, <3>1
    <3>3. Complete(tokens, i, q, c)
      BY <1>6, <2>1, <3>1, <3>2 DEF Complete, NoneBetween
    <3>4. /\ NameAt(tokens, i) \in DOMAIN before.ops
          /\ before.ops[NameAt(tokens, i)] = Texts(tokens, i, q - 1)
      BY <1>2, <2>1, <3>2, <3>3 DEF LoopAt
    <3> QED
      BY <1>5, <2>1, <3>1, <3>4
  <2> QED
    BY <2>3, <2>4
<1> QED
  BY <1>4, <1>8, <1>9, <1>10

\* The options of a command line are what is written.
LEMMA ParseInputSaysWhatIsWritten ==
  ASSUME NEW tokens \in Seq(Token)
  PROVE  SaysWhatIsWritten(tokens, ParseInput(tokens))
<1> DEFINE opts == ParseInput(tokens)
           written == {i \in DOMAIN tokens : tokens[i].dashed}
           last(key) == CHOOSE i \in written :
                          /\ tokens[i].text = key
                          /\ \A j \in written : tokens[j].text = key => j =< i
           past(i) == CHOOSE n \in i + 1 .. Len(tokens) + 1 :
                        /\ n = Len(tokens) + 1 \/ n \in written
                        /\ \A j \in i + 1 .. n - 1 : j \notin written
<1>1. /\ Len(tokens) \in Nat /\ DOMAIN tokens = 1 .. Len(tokens)
      /\ written = Written(tokens, Len(tokens))
  BY DEF Written
<1> SUFFICES ASSUME written # {}
             PROVE  /\ opts.parsed = {tokens[i].text : i \in written}
                    /\ opts.parsed \subseteq opts.keys
                    /\ \A key \in opts.parsed :
                         opts.ops[key] = [j \in 1 .. past(last(key)) - last(key) - 1
                                            |-> tokens[last(key) + j].text]
  BY DEF SaysWhatIsWritten
<1>2. tokens # <<>>
  BY <1>1
<1> HIDE DEF opts
<1>3. /\ opts.parsed = {tokens[i].text : i \in written}
      /\ opts.parsed \subseteq opts.keys
      /\ \A i, q : LastOf(tokens, i, q) =>
           opts.ops[NameAt(tokens, i)] = Texts(tokens, i, q - 1)
  BY <1>1, <1>2, ParseInputRight DEF opts
<1>4. ASSUME NEW key \in opts.parsed
      PROVE  opts.ops[key] = [j \in 1 .. past(last(key)) - last(key) - 1
                                |-> tokens[last(key) + j].text]
  <2>1. PICK i \in written : tokens[i].text = key
    BY <1>3
  <2>2. i \in 0 .. Len(tokens) /\ i # 0 /\ Opens(tokens, i) /\ NameAt(tokens, i) = key
    BY <1>1, <2>1 DEF Opens, NameAt
  <2>3. PICK l \in i .. Len(tokens), q \in 1 .. Len(tokens) + 1 :
          LastOf(tokens, l, q) /\ NameAt(tokens, l) = key
    BY <2>2, LastKey
  <2>4. /\ l \in 1 .. Len(tokens) /\ q \in l + 1 .. Len(tokens) + 1
        /\ l \in written /\ tokens[l].text = key
        /\ q = Len(tokens) + 1 \/ q \in written
        /\ \A j \in l + 1 .. q - 1 : j \notin written
        /\ \A j \in written : tokens[j].text = key => j =< l
    BY <1>1, <2>2, <2>3 DEF LastOf, Opens, NameAt, NoneBetween
  <2>5. last(key) = l
    <3>1. /\ last(key) \in written /\ tokens[last(key)].text = key
          /\ \A j \in written : tokens[j].text = key => j =< last(key)
      BY <2>4, Zenon
    <3> HIDE DEF last
    <3> QED
      BY <1>1, <2>4, <3>1
  <2>6. past(l) = q
    <3>1. /\ past(l) \in l + 1 .. Len(tokens) + 1
          /\ past(l) = Len(tokens) + 1 \/ past(l) \in written
          /\ \A j \in l + 1 .. past(l) - 1 : j \notin written
      BY <2>4, Zenon
    <3> HIDE DEF past
    <3> QED
      BY <1>1, <2>4, <3>1
  <2>7. opts.ops[key] = Texts(tokens, l, q - 1)
    BY <1>3, <2>3
  <2>8. (q - 1) - l = q - l - 1
    BY <1>1, <2>4
  <2> HIDE DEF last, past
  <2> QED
    BY <2>5, <2>6, <2>7, <2>8 DEF Texts
<1> QED
  BY <1>3, <1>4

\* A word is its text and its dashes.
LEMMA TokenIs ==
  ASSUME NEW token \in Token
  PROVE  /\ token.dashed => token = Key(token.text)
         /\ ~ token.dashed => token = Word(token.text)
BY DEF Token, Key, Word

\* There is a key if it is written, or is the first word.
LEMMA KeyIsWritten ==
  ASSUME NEW tokens \in Seq(Token), tokens # <<>>, NEW key
  PROVE  HasKey(ParseInput(tokens), key) <=>
           tokens[1].text = key \/ \E i \in DOMAIN tokens : tokens[i] = Key(key)
<1> DEFINE opts == ParseInput(tokens)
<1>1. opts.keys = {tokens[1].text} \cup {tokens[i].text : i \in Written(tokens, Len(tokens))}
  BY ParseInputRight
<1>2. ASSUME NEW i \in DOMAIN tokens
      PROVE  tokens[i] = Key(key) <=> tokens[i].dashed /\ tokens[i].text = key
  <2>1. tokens[i] \in Token
    OBVIOUS
  <2> QED
    BY <2>1, TokenIs DEF Key
<1> HIDE DEF opts
<1>3. key \in opts.keys <=>
        tokens[1].text = key \/ \E i \in DOMAIN tokens : tokens[i] = Key(key)
  BY <1>1, <1>2 DEF Written
<1> QED
  BY <1>3 DEF HasKey, opts

\* Its values are the words behind its last occurrence.
LEMMA ValuesOfKey ==
  ASSUME NEW tokens \in Seq(Token), tokens # <<>>, NEW key,
         HasKey(ParseInput(tokens), key)
  PROVE  \E l \in 0 .. Len(tokens), q \in 1 .. Len(tokens) + 1 :
           /\ LastOf(tokens, l, q) /\ NameAt(tokens, l) = key
           /\ ParseInput(tokens).ops[key] = Texts(tokens, l, q - 1)
<1>1. PICK i \in 0 .. Len(tokens) : Opens(tokens, i) /\ NameAt(tokens, i) = key
  <2>1. CASE tokens[1].text = key
    <3>1. 0 \in 0 .. Len(tokens) /\ Opens(tokens, 0) /\ NameAt(tokens, 0) = key
      BY <2>1 DEF Opens, NameAt
    <3> QED
      BY <3>1
  <2>2. CASE \E i \in DOMAIN tokens : tokens[i] = Key(key)
    <3>1. PICK i \in DOMAIN tokens : tokens[i] = Key(key)
      BY <2>2
    <3>2. i \in 0 .. Len(tokens) /\ i # 0
      OBVIOUS
    <3>3. Opens(tokens, i) /\ NameAt(tokens, i) = key
      BY <3>1, <3>2 DEF Opens, NameAt, Key
    <3> QED
      BY <3>2, <3>3
  <2> QED
    BY <2>1, <2>2, KeyIsWritten
<1>2. PICK l \in i .. Len(tokens), q \in 1 .. Len(tokens) + 1 :
        LastOf(tokens, l, q) /\ NameAt(tokens, l) = key
  BY <1>1, LastKey
<1>3. ParseInput(tokens).ops[NameAt(tokens, l)] = Texts(tokens, l, q - 1)
  BY <1>2, ParseInputRight
<1>4. l \in 0 .. Len(tokens)
  BY <1>1
<1> QED
  BY <1>2, <1>3, <1>4

\* Nothing is a value that is not a word.
LEMMA ValuesAreWords ==
  ASSUME NEW tokens \in Seq(Token), tokens # <<>>, NEW key,
         HasKey(ParseInput(tokens), key)
  PROVE  LET vals == ParseInput(tokens).ops[key]
         IN /\ vals \in Seq(STRING)
            /\ \A m \in DOMAIN vals : \E j \in DOMAIN tokens : vals[m] = tokens[j].text
<1>1. PICK l \in 0 .. Len(tokens), q \in 1 .. Len(tokens) + 1 :
        LastOf(tokens, l, q) /\ ParseInput(tokens).ops[key] = Texts(tokens, l, q - 1)
  BY ValuesOfKey
<1>2. q - 1 \in 0 .. Len(tokens) /\ l \in 0 .. q - 1
  BY <1>1 DEF LastOf
<1>3. Texts(tokens, l, q - 1) \in Seq(STRING)
  BY <1>2, TextsAreWords
<1>4. ASSUME NEW m \in DOMAIN Texts(tokens, l, q - 1)
      PROVE  \E j \in DOMAIN tokens : Texts(tokens, l, q - 1)[m] = tokens[j].text
  <2>1. m \in 1 .. (q - 1) - l /\ Texts(tokens, l, q - 1)[m] = tokens[l + m].text
    BY <1>4 DEF Texts
  <2>2. l + m \in DOMAIN tokens
    BY <1>2, <2>1
  <2> QED
    BY <2>1, <2>2
<1> QED
  BY <1>1, <1>3, <1>4

\* A value of a key, read off the words: it is behind the last occurrence of
\* the key and before the next one.
ValueIsWritten(tokens, key, val) ==
  \E i, j \in DOMAIN tokens :
    /\ i =< j /\ tokens[i].text = key /\ tokens[j] = Word(val)
    /\ tokens[i].dashed \/ i = 1
    /\ \A k \in i + 1 .. j : ~ tokens[k].dashed
    /\ \A k \in j .. Len(tokens) : tokens[k] # Key(key)

LEMMA ValuesAreWritten ==
  ASSUME NEW tokens \in Seq(Token), tokens # <<>>, NEW key,
         HasKey(ParseInput(tokens), key), NEW val
  PROVE  LET vals == ParseInput(tokens).ops[key]
         IN (\E m \in DOMAIN vals : vals[m] = val) <=> ValueIsWritten(tokens, key, val)
<1> DEFINE len == Len(tokens)
<1>1. PICK l \in 0 .. len, q \in 1 .. len + 1 :
        /\ LastOf(tokens, l, q) /\ NameAt(tokens, l) = key
        /\ ParseInput(tokens).ops[key] = Texts(tokens, l, q - 1)
  BY ValuesOfKey
<1>2. /\ len \in Nat /\ len # 0 /\ DOMAIN tokens = 1 .. len
      /\ q \in l + 1 .. len + 1
      /\ l = 0 \/ tokens[l].dashed
      /\ \A k \in l + 1 .. q - 1 : ~ tokens[k].dashed
      /\ q = len + 1 \/ tokens[q].dashed
      /\ \A k \in l + 1 .. len : tokens[k].dashed => tokens[k].text # key
  BY <1>1 DEF LastOf, Opens, NoneBetween
<1>3. \A k \in 1 .. len : tokens[k] \in Token
  OBVIOUS
<1> DEFINE vals == Texts(tokens, l, q - 1)
<1>4. /\ \A m \in DOMAIN vals : l + m \in l + 1 .. q - 1 /\ vals[m] = tokens[l + m].text
      /\ \A j \in l + 1 .. q - 1 : j - l \in DOMAIN vals /\ vals[j - l] = tokens[j].text
  <2>1. DOMAIN vals = 1 .. (q - 1) - l
        /\ \A m \in 1 .. (q - 1) - l : vals[m] = tokens[l + m].text
    BY DEF Texts
  <2> HIDE DEF vals
  <2>2. \A j \in l + 1 .. q - 1 : j - l \in 1 .. (q - 1) - l /\ l + (j - l) = j
    BY <1>2
  <2> QED
    BY <1>2, <2>1, <2>2
<1> HIDE DEF vals
<1>5. ASSUME NEW m \in DOMAIN vals, vals[m] = val
      PROVE  ValueIsWritten(tokens, key, val)
  <2> DEFINE i == IF l = 0 THEN 1 ELSE l
             j == l + m
  <2>1. i \in 1 .. len /\ j \in l + 1 .. q - 1 /\ j \in 1 .. len /\ i =< j
    BY <1>2, <1>4, <1>5
  <2>2. tokens[i].text = key /\ (tokens[i].dashed \/ i = 1)
    BY <1>1, <1>2 DEF NameAt
  <2>3. tokens[j] = Word(val)
    <3>1. tokens[j].text = val
      BY <1>4, <1>5
    <3>2. tokens[j] \in Token /\ ~ tokens[j].dashed
      BY <1>2, <2>1
    <3> HIDE DEF i, j
    <3> QED
      BY <3>1, <3>2, TokenIs
  <2>4. \A k \in i + 1 .. j : ~ tokens[k].dashed
    BY <1>2, <2>1
  <2>5. ASSUME NEW k \in j .. len PROVE tokens[k] # Key(key)
    BY <1>2, <2>1, <2>5 DEF Key
  <2> HIDE DEF i, j
  <2> QED
    BY <1>2, <2>1, <2>2, <2>3, <2>4, <2>5 DEF ValueIsWritten
<1>6. ASSUME ValueIsWritten(tokens, key, val)
      PROVE  \E m \in DOMAIN vals : vals[m] = val
  <2>1. PICK i, j \in 1 .. len :
          /\ i =< j /\ tokens[i].text = key /\ tokens[j] = Word(val)
          /\ tokens[i].dashed \/ i = 1
          /\ \A k \in i + 1 .. j : ~ tokens[k].dashed
          /\ \A k \in j .. len : tokens[k] # Key(key)
    BY <1>2, <1>6 DEF ValueIsWritten
  <2>2. ~ tokens[j].dashed /\ tokens[j].text = val
    BY <2>1 DEF Word
  <2>3. \A k \in j .. len : ~ (tokens[k].dashed /\ tokens[k].text = key)
    BY <1>3, <2>1, TokenIs
  <2>4. l < j
    <3>1. l # 0 => tokens[l].dashed /\ tokens[l].text = key
      BY <1>1, <1>2 DEF NameAt
    <3> QED
      BY <1>1, <2>1, <2>2, <2>3, <3>1
  <2>5. l =< i
    BY <1>1, <1>2, <2>1, <2>4
  <2>6. tokens[i].dashed => l = i
    BY <1>2, <2>1, <2>5
  <2>7. j < q
    <3>1. CASE q = len + 1
      BY <2>1, <3>1
    <3>2. CASE tokens[q].dashed
      <4>1. ~ (q \in i + 1 .. j)
        BY <2>1, <3>2
      <4>2. q # i
        BY <1>2, <2>6, <3>2
      <4>3. q < i => l # i /\ i = 1
        BY <1>2, <2>1, <2>6
      <4> QED
        BY <1>1, <1>2, <2>1, <4>1, <4>2, <4>3
    <3> QED
      BY <1>2, <3>1, <3>2
  <2>8. j \in l + 1 .. q - 1
    BY <1>1, <2>1, <2>4, <2>7
  <2> QED
    BY <1>4, <2>2, <2>8
<1> QED
  BY <1>1, <1>5, <1>6 DEF vals

-----------------------------------------------------------------------------
(***************************************************************************)
(* The free fit: its parameters, step by step.                             *)
(***************************************************************************)
BeforeData == {"off", "data", "aborted"}
BeforeFits == {"pois", "stat_only_fit"}
WithPois == {"stat_only_fit", "fit"}
WithData == {"pois", "stat_only_fit", "fit", "done"}

\* Where the parameters are when the last fit or the first one may start.
GlobReady(g) == ws[g].val = IF data = Observed THEN Clip(0) ELSE data[g]

PoiReady(p) == ws[p].const = (p \notin settings.pois_float)

PoiHeld(p) == p \notin settings.pois_float => ws[p].val = launch[p].val

NpReady(n) ==
  IF settings.stat_only
  THEN /\ ws[n].const /\ ws[n].val = fits[1].end[n].val
       /\ fits[1].start[n].const = launch[n].const
  ELSE ws[n].const = launch[n].const

\* What every fit has seen.
FitHeld(f) ==
  /\ \A p \in POIs :
       /\ f.start[p].const = (p \notin settings.pois_float)
       /\ p \notin settings.pois_float => /\ f.start[p].val = launch[p].val
                                          /\ f.end[p].val = launch[p].val
  /\ \A g \in Globs : f.start[g].val = IF data = Observed THEN Clip(0) ELSE data[g]
  /\ \A p \in f.pois_to_estimate_errors : ~ f.start[p].const

\* The fits made before the last one.
EarlierFits ==
  IF settings.stat_only THEN Len(fits) = 1 /\ fits[1].errors = "DEFAULT"
                        ELSE fits = <<>>

\* The inductive invariant.
IInv ==
  /\ FreeFitTypeOK
  /\ pc \in BeforeData => ws = launch
  /\ pc \in BeforeData \cup BeforeFits => fits = <<>>
  /\ pc \in {"data"} \cup WithData => settings.pois_float \subseteq POIs
  /\ pc \in WithData => data \in GlobValues \cup {Observed}
  /\ pc \in BeforeFits \cup {"fit"} => \A g \in Globs : GlobReady(g)
  /\ pc \in BeforeFits => /\ \A p \in POIs : ws[p].val = launch[p].val
                          /\ \A n \in NPs : ws[n].const = launch[n].const
  /\ pc \in WithPois => \A p \in POIs : PoiReady(p)
  /\ \A p \in POIs : PoiHeld(p)
  /\ pc = "stat_only_fit" => settings.stat_only
  /\ pc = "fit" => EarlierFits /\ \A n \in NPs : NpReady(n)
  /\ \A i \in DOMAIN fits : FitHeld(fits[i])
  /\ LastFitHoldsNpsAsAsked
  /\ ErrorsOfLastFitOnly

-----------------------------------------------------------------------------
(***************************************************************************)
(* The steps of RunFit on a workspace.                                     *)
(***************************************************************************)

\* Setting the global observables changes their values and nothing else.
LEMMA SetGlobsPoint ==
  ASSUME NEW w \in Workspaces, NEW globs \in GlobValues
  PROVE  /\ SetGlobs(w, globs) \in Workspaces
         /\ \A p \in Params :
              /\ SetGlobs(w, globs)[p].val = IF p \in Globs THEN globs[p] ELSE w[p].val
              /\ SetGlobs(w, globs)[p].const = w[p].const
BY DEF SetGlobs, Workspaces, Var, GlobValues

\* The fit that a generated dataset is made at leaves the values of the POIs
\* and every flag of an NP.
LEMMA AsimovPoint ==
  ASSUME NEW w \in Workspaces, NEW w2 \in AsimovWorkspaces(w)
  PROVE  /\ w2 \in Workspaces
         /\ \A p \in POIs : w2[p].val = w[p].val
         /\ \A p \in NPs : w2[p].const = w[p].const
<1>1. FixValConst(w, POIs) \in Workspaces
  BY FixValConstPoint
<1>2. PICK fitted \in Minimised(FixValConst(w, POIs)) : w2 = FloatVals(fitted, POIs)
  BY DEF AsimovWorkspaces
<1> DEFINE fixed == FixValConst(w, POIs)
<1>3. fixed \in Workspaces /\ fitted \in Minimised(fixed)
  BY <1>1, <1>2
<1>4. /\ \A p \in NPs : fixed[p].const = w[p].const
      /\ \A p \in POIs : fixed[p].val = w[p].val /\ fixed[p].const = TRUE
  <2>1. /\ POIs \subseteq Params /\ NPs \subseteq Params
        /\ \A p \in NPs : p \notin POIs
    BY WorkspaceAssumption DEF Params
  <2>2. \A p \in Params : /\ fixed[p].val = w[p].val
                          /\ p \in POIs => fixed[p].const = TRUE
                          /\ p \notin POIs => fixed[p].const = w[p].const
    BY FixValConstPoint
  <2> HIDE DEF fixed
  <2> QED
    BY <2>1, <2>2
<1> HIDE DEF fixed
<1>5. /\ fitted \in Workspaces
      /\ \A p \in Params \ Floating(fixed) : fitted[p] = fixed[p]
      /\ \A p \in Floating(fixed) : fitted[p].const = FALSE
  BY <1>3, MinimisedPoint
<1>6. \A p \in Params : fitted[p].const = fixed[p].const
  <2> TAKE p \in Params
  <2>1. CASE p \in Floating(fixed)
    BY <2>1, <1>3, <1>5, WorkspaceField DEF Floating
  <2>2. CASE p \notin Floating(fixed)
    BY <2>2, <1>5
  <2> QED
    BY <2>1, <2>2
<1>7. /\ w2 \in Workspaces
      /\ \A p \in Params :
           /\ w2[p].val = fitted[p].val
           /\ p \notin POIs => w2[p].const = fitted[p].const
  <2>1. fitted \in Workspaces
    BY <1>5
  <2> QED
    BY ONLY <1>2, <2>1, FloatValsPoint, Zenon
<1>8. ASSUME NEW p \in POIs PROVE w2[p].val = w[p].val
  <2>1. p \in Params /\ fixed[p].const = TRUE /\ fixed[p].val = w[p].val
    BY <1>4 DEF Params
  <2>2. fitted[p] = fixed[p]
    BY <1>5, <2>1 DEF Floating
  <2> QED
    BY <1>7, <2>1, <2>2
<1>9. \A p \in NPs : w2[p].const = w[p].const
  BY <1>4, <1>6, <1>7, WorkspaceAssumption DEF Params
<1> QED
  BY <1>7, <1>8, <1>9

\* The generated dataset brings its global observables with it.
LEMMA GeneratePoint ==
  ASSUME NEW w \in Workspaces, Generate(w)
  PROVE  /\ data' \in GlobValues
         /\ ws' \in Workspaces
         /\ \A g \in Globs : ws'[g].val = data'[g]
         /\ \A p \in POIs : ws'[p].val = w[p].val
         /\ \A n \in NPs : ws'[n].const = w[n].const
<1>1. PICK globs \in AsimovGlobs, fitted \in AsimovWorkspaces(w) :
        data' = globs /\ ws' = SetGlobs(fitted, globs)
  BY DEF Generate
<1>2. globs \in GlobValues
  BY FreeFitAssumption
<1>3. /\ fitted \in Workspaces
      /\ \A p \in POIs : fitted[p].val = w[p].val
      /\ \A p \in NPs : fitted[p].const = w[p].const
  BY <1>1, AsimovPoint
<1>4. /\ SetGlobs(fitted, globs) \in Workspaces
      /\ \A p \in Params :
           /\ SetGlobs(fitted, globs)[p].val = IF p \in Globs THEN globs[p] ELSE fitted[p].val
           /\ SetGlobs(fitted, globs)[p].const = fitted[p].const
  BY <1>2, <1>3, SetGlobsPoint
<1> QED
  BY <1>1, <1>2, <1>3, <1>4, WorkspaceAssumption DEF Params

\* The dataset of each kind of study, and what it leaves in the workspace.
LEMMA GetDataPoint ==
  ASSUME ws \in Workspaces, GetData
  PROVE  /\ data' \in GlobValues \cup {Observed}
         /\ ws' \in Workspaces
         /\ \A g \in Globs : GlobReady(g)'
         /\ \A p \in POIs : ws'[p].val = ws[p].val
         /\ \A n \in NPs : ws'[n].const = ws[n].const
<1> DEFINE zeroed == SetVarVal(ws, Globs, 0)
<1>1. /\ zeroed \in Workspaces
      /\ \A g \in Globs : zeroed[g].val = Clip(0)
      /\ \A p \in POIs : zeroed[p].val = ws[p].val
      /\ \A n \in NPs : zeroed[n].const = ws[n].const
  BY SetVarValPoint, WorkspaceAssumption DEF Params
<1> HIDE DEF zeroed
<1>2. CASE data' = Observed /\ ws' = zeroed
  BY <1>1, <1>2 DEF GlobReady
<1>3. CASE Generate(zeroed)
  BY <1>1, <1>3, GeneratePoint, FreeFitAssumption DEF GlobReady
<1>4. CASE Generate(ws)
  BY <1>4, GeneratePoint, FreeFitAssumption DEF GlobReady
<1> QED
  BY <1>2, <1>3, <1>4 DEF GetData, zeroed

\* The POIs that are asked for float, the others are held, and no value moves.
LEMMA FloatPoisPoint ==
  ASSUME NEW w \in Workspaces
  PROVE  /\ FloatPois(w) \in Workspaces
         /\ \A p \in POIs : FloatPois(w)[p].const = (p \notin settings.pois_float)
         /\ \A p \in Params : FloatPois(w)[p].val = w[p].val
         /\ settings.pois_float \subseteq POIs =>
              \A n \in NPs : FloatPois(w)[n].const = w[n].const
<1> DEFINE fixed == FixValConst(w, POIs)
<1>1. /\ fixed \in Workspaces
      /\ \A p \in POIs : fixed[p].const = TRUE
      /\ \A p \in Params : fixed[p].val = w[p].val
      /\ \A n \in NPs : fixed[n].const = w[n].const
  <2>1. POIs \subseteq Params /\ NPs \subseteq Params /\ POIs \cap NPs = {}
    BY WorkspaceAssumption DEF Params
  <2>2. /\ fixed \in Workspaces
        /\ \A p \in Params :
             /\ fixed[p].val = w[p].val
             /\ p \in POIs => fixed[p].const = TRUE
             /\ p \notin POIs => fixed[p].const = w[p].const
    BY FixValConstPoint
  <2> QED
    BY <2>1, <2>2
<1> DEFINE asked == settings.pois_float
           floated == FloatVals(fixed, asked)
<1>2. FloatPois(w) = floated
  BY DEF FloatPois, fixed
<1> HIDE DEF fixed, asked
<1>3. /\ floated \in Workspaces
      /\ \A p \in Params :
           /\ floated[p].val = fixed[p].val
           /\ p \in asked => floated[p].const = FALSE
           /\ p \notin asked => floated[p].const = fixed[p].const
  <2>1. fixed \in Workspaces
    BY <1>1
  <2> QED
    BY ONLY <2>1, FloatValsPoint, Zenon
<1> HIDE DEF floated
<1>4. POIs \subseteq Params /\ NPs \subseteq Params /\ POIs \cap NPs = {}
  BY WorkspaceAssumption DEF Params
<1>5. \A p \in POIs : floated[p].const = (p \notin asked)
  BY <1>1, <1>3, <1>4
<1>6. asked \subseteq POIs => \A n \in NPs : floated[n].const = w[n].const
  BY <1>1, <1>3, <1>4
<1> QED
  BY <1>1, <1>2, <1>3, <1>5, <1>6 DEF asked

\* What a fit leaves of what was ready for it.
LEMMA FittedPoint ==
  ASSUME NEW w \in Workspaces, NEW w2 \in Minimised(w)
  PROVE  /\ w2 \in Workspaces
         /\ \A g \in Globs : w2[g] = w[g]
         /\ \A p \in Params : w2[p].const = w[p].const
         /\ \A p \in Params : w[p].const => w2[p].val = w[p].val
<1>1. /\ w2 \in Workspaces
      /\ \A p \in Params \ Floating(w) : w2[p] = w[p]
      /\ \A p \in Floating(w) : w2[p].const = FALSE
  BY MinimisedPoint
<1>2. \A g \in Globs : g \in Params \ Floating(w)
  BY DEF Floating, Params
<1>3. \A p \in Params : w[p].const => p \notin Floating(w)
  BY DEF Floating
<1>4. \A p \in Floating(w) : w[p].const = FALSE
  BY WorkspaceField DEF Floating
<1> QED
  BY <1>1, <1>2, <1>3, <1>4

-----------------------------------------------------------------------------
(***************************************************************************)
(* Every step keeps the inductive invariant.                               *)
(***************************************************************************)

\* A fit that was ready records what FitHeld says, and types.
LEMMA FitOfReady ==
  ASSUME FreeFitTypeOK, settings.pois_float \subseteq POIs,
         \A g \in Globs : GlobReady(g),
         \A p \in POIs : PoiReady(p), \A p \in POIs : PoiHeld(p),
         NEW fitted \in Minimised(ws), NEW e \in ErrorModes,
         NEW f, f = [start |-> ws, end |-> fitted, errors |-> e,
                     pois_to_estimate_errors |-> ErrorsFor]
  PROVE  f \in Fits /\ FitHeld(f) /\ f.errors = e
<1>1. ws \in Workspaces /\ settings.pois_float \in SUBSET Names
  BY DEF FreeFitTypeOK, Settings
<1>2. /\ fitted \in Workspaces
      /\ \A p \in Params : ws[p].const => fitted[p].val = ws[p].val
  BY <1>1, FittedPoint
<1>3. /\ ErrorsFor \subseteq settings.pois_float
      /\ ErrorsFor \subseteq POIs
  BY DEF ErrorsFor
<1>4. f \in Fits
  BY <1>1, <1>2, <1>3 DEF Fits
<1>5. /\ f.start = ws /\ f.end = fitted /\ f.errors = e
      /\ f.pois_to_estimate_errors = ErrorsFor
  OBVIOUS
<1>6. ASSUME NEW p \in POIs
      PROVE  /\ ws[p].const = (p \notin settings.pois_float)
             /\ p \notin settings.pois_float => /\ ws[p].val = launch[p].val
                                                /\ fitted[p].val = launch[p].val
  <2>1. ws[p].const = (p \notin settings.pois_float)
    BY DEF PoiReady
  <2>2. p \notin settings.pois_float => ws[p].val = launch[p].val
    BY DEF PoiHeld
  <2>3. ws[p].const => fitted[p].val = ws[p].val
    BY <1>2 DEF Params
  <2>4. p \notin settings.pois_float => ws[p].const
    BY <2>1
  <2> QED
    BY <2>1, <2>2, <2>3, <2>4
<1>7. \A g \in Globs : ws[g].val = IF data = Observed THEN Clip(0) ELSE data[g]
  BY DEF GlobReady
<1>8. \A p \in ErrorsFor : ~ ws[p].const
  BY <1>3, <1>6
<1> QED
  BY <1>4, <1>5, <1>6, <1>7, <1>8 DEF FitHeld

\* A free fit that has not begun knows nothing yet.
LEMMA InitIInv == FreeFitInit => IInv
<1> SUFFICES ASSUME FreeFitInit PROVE IInv
  OBVIOUS
<1>1. FreeFitTypeOK
  <2>1. NoSettings \in Settings
    BY FreeFitAssumption DEF NoSettings, Settings, StudyTypes
  <2>2. ws \in Workspaces
    BY FreeFitAssumption DEF FreeFitInit
  <2> QED
    BY <2>1, <2>2 DEF FreeFitInit, FreeFitTypeOK
<1> QED
  BY <1>1 DEF FreeFitInit, IInv, BeforeData, BeforeFits, WithPois, WithData, PoiHeld,
              LastFitHoldsNpsAsAsked, ErrorsOfLastFitOnly

LEMMA InitFromCommandLineKeeps ==
  ASSUME IInv, NEW s \in Settings, InitFromCommandLine(s)
  PROVE  IInv'
<1>1. /\ pc = "off" /\ settings' = s /\ pc' \in {"data", "aborted"}
      /\ pc' = "data" => s.pois_float \subseteq POIs
      /\ ws' = ws /\ data' = data /\ launch' = launch /\ fits' = fits
  BY DEF InitFromCommandLine
<1>2. FreeFitTypeOK'
  BY <1>1 DEF IInv, FreeFitTypeOK
<1>3. ws = launch /\ fits = <<>>
  BY <1>1 DEF IInv, BeforeData
<1> QED
  BY <1>1, <1>2, <1>3 DEF IInv, BeforeData, BeforeFits, WithPois, WithData, PoiHeld,
                          LastFitHoldsNpsAsAsked, ErrorsOfLastFitOnly

LEMMA GetDataKeeps == ASSUME IInv, GetData PROVE IInv'
<1>1. /\ pc = "data" /\ pc' = "pois"
      /\ settings' = settings /\ launch' = launch /\ fits' = fits
  BY DEF GetData
<1>2. /\ FreeFitTypeOK /\ ws = launch /\ fits = <<>>
      /\ settings.pois_float \subseteq POIs
  BY <1>1 DEF IInv, BeforeData
<1>3. /\ data' \in GlobValues \cup {Observed}
      /\ ws' \in Workspaces
      /\ \A g \in Globs : GlobReady(g)'
      /\ \A p \in POIs : ws'[p].val = ws[p].val
      /\ \A n \in NPs : ws'[n].const = ws[n].const
  BY <1>2, GetDataPoint DEF FreeFitTypeOK
<1>4. FreeFitTypeOK'
  BY <1>1, <1>2, <1>3 DEF FreeFitTypeOK
<1>5. /\ \A p \in POIs : ws'[p].val = launch'[p].val
      /\ \A n \in NPs : ws'[n].const = launch'[n].const
  BY <1>1, <1>2, <1>3
<1> QED
  BY <1>1, <1>2, <1>3, <1>4, <1>5
  DEF IInv, BeforeData, BeforeFits, WithPois, WithData, PoiHeld,
      LastFitHoldsNpsAsAsked, ErrorsOfLastFitOnly

LEMMA PreparePoisKeeps == ASSUME IInv, PreparePois PROVE IInv'
<1>1. /\ pc = "pois" /\ ws' = FloatPois(ws)
      /\ pc' = IF settings.stat_only THEN "stat_only_fit" ELSE "fit"
      /\ settings' = settings /\ data' = data /\ launch' = launch /\ fits' = fits
  BY DEF PreparePois
<1>2. /\ FreeFitTypeOK /\ fits = <<>>
      /\ settings.pois_float \subseteq POIs
      /\ data \in GlobValues \cup {Observed}
      /\ \A g \in Globs : GlobReady(g)
      /\ \A p \in POIs : ws[p].val = launch[p].val
      /\ \A n \in NPs : ws[n].const = launch[n].const
  BY <1>1 DEF IInv, BeforeFits, WithData
<1>3. ws \in Workspaces
  BY <1>2 DEF FreeFitTypeOK
<1>4. /\ ws' \in Workspaces
      /\ \A p \in POIs : ws'[p].const = (p \notin settings.pois_float)
      /\ \A p \in Params : ws'[p].val = ws[p].val
      /\ \A n \in NPs : ws'[n].const = ws[n].const
  BY <1>1, <1>2, <1>3, FloatPoisPoint
<1>5. FreeFitTypeOK'
  BY <1>1, <1>2, <1>4 DEF FreeFitTypeOK
<1>6. \A g \in Globs : GlobReady(g)'
  BY <1>1, <1>2, <1>4 DEF GlobReady, Params
<1>7. /\ \A p \in POIs : ws'[p].val = launch'[p].val
      /\ \A n \in NPs : ws'[n].const = launch'[n].const
      /\ \A p \in POIs : PoiReady(p)' /\ PoiHeld(p)'
  BY <1>1, <1>2, <1>4 DEF Params, PoiReady, PoiHeld
<1>8. pc' = "fit" => EarlierFits' /\ \A n \in NPs : NpReady(n)'
  BY <1>1, <1>2, <1>7 DEF EarlierFits, NpReady
<1>9. pc' = "stat_only_fit" => settings'.stat_only
  BY <1>1
<1> QED
  BY <1>1, <1>2, <1>5, <1>6, <1>7, <1>8, <1>9
  DEF IInv, BeforeData, BeforeFits, WithPois, WithData,
      LastFitHoldsNpsAsAsked, ErrorsOfLastFitOnly

LEMMA StatOnlyFitKeeps == ASSUME IInv, StatOnlyFit PROVE IInv'
<1>1. PICK fitted \in Minimised(ws) :
        Minimize(fitted, "DEFAULT") /\ ws' = FixValConst(fitted, NPs)
  BY DEF StatOnlyFit
<1>2. /\ pc = "stat_only_fit" /\ pc' = "fit"
      /\ settings' = settings /\ data' = data /\ launch' = launch
  BY DEF StatOnlyFit
<1>3. /\ FreeFitTypeOK /\ fits = <<>> /\ settings.stat_only
      /\ settings.pois_float \subseteq POIs
      /\ data \in GlobValues \cup {Observed}
      /\ \A g \in Globs : GlobReady(g)
      /\ \A n \in NPs : ws[n].const = launch[n].const
      /\ \A p \in POIs : PoiReady(p)
      /\ \A p \in POIs : PoiHeld(p)
  BY <1>2 DEF IInv, BeforeFits, WithPois, WithData
<1> DEFINE f == [start |-> ws, end |-> fitted, errors |-> "DEFAULT",
                 pois_to_estimate_errors |-> ErrorsFor]
<1>4. f \in Fits /\ FitHeld(f) /\ f.errors = "DEFAULT"
  BY <1>3, FitOfReady DEF ErrorModes
<1>5. f.start = ws /\ f.end = fitted
  OBVIOUS
<1>6. fits' = Append(fits, f)
  BY <1>1 DEF Minimize
<1> HIDE DEF f
<1>7. fits' = <<f>>
  BY <1>3, <1>6
<1>8. Len(fits') = 1 /\ DOMAIN fits' = {1} /\ fits'[1] = f
  BY <1>7
<1>9. FitHeld(fits[1])'
  <2>1. fits'[1] = f /\ settings' = settings /\ data' = data /\ launch' = launch
    BY <1>2, <1>8
  <2>2. /\ \A p \in POIs :
             /\ f.start[p].const = (p \notin settings'.pois_float)
             /\ p \notin settings'.pois_float => /\ f.start[p].val = launch'[p].val
                                                 /\ f.end[p].val = launch'[p].val
        /\ \A g \in Globs : f.start[g].val = IF data' = Observed THEN Clip(0) ELSE data'[g]
        /\ \A p \in f.pois_to_estimate_errors : ~ f.start[p].const
    BY <1>4, <2>1 DEF FitHeld
  <2> QED
    BY <1>8, <2>2 DEF FitHeld
<1>10. /\ fitted \in Workspaces
       /\ \A g \in Globs : fitted[g] = ws[g]
       /\ \A p \in Params : fitted[p].const = ws[p].const
       /\ \A p \in Params : ws[p].const => fitted[p].val = ws[p].val
  BY <1>3, FittedPoint DEF FreeFitTypeOK
<1>11. /\ ws' \in Workspaces
       /\ \A p \in Params : ws'[p].val = fitted[p].val
       /\ \A p \in NPs : ws'[p].const = TRUE
       /\ \A p \in POIs : ws'[p].const = fitted[p].const
  <2>1. /\ ws' \in Workspaces
        /\ \A p \in Params :
             /\ ws'[p].val = fitted[p].val
             /\ p \in NPs => ws'[p].const = TRUE
             /\ p \notin NPs => ws'[p].const = fitted[p].const
    BY <1>1, <1>10, FixValConstPoint
  <2> QED
    BY <2>1, WorkspaceAssumption DEF Params
<1>12. FreeFitTypeOK'
  <2>1. fits' \in Seq(Fits)
    BY <1>4, <1>7
  <2> QED
    BY <1>2, <1>3, <1>11, <2>1 DEF FreeFitTypeOK
<1>13. \A g \in Globs : GlobReady(g)'
  BY <1>2, <1>3, <1>10, <1>11 DEF GlobReady, Params
<1>14. \A p \in POIs : PoiReady(p)' /\ PoiHeld(p)'
  <2> TAKE p \in POIs
  <2>1. PoiReady(p) /\ PoiHeld(p) /\ p \in Params
    BY <1>3 DEF Params
  <2>2. ws'[p].const = ws[p].const
    BY <1>10, <1>11, <2>1
  <2>3. ws[p].const => ws'[p].val = ws[p].val
    BY <1>10, <1>11, <2>1
  <2>4. ws[p].const = (p \notin settings.pois_float)
    BY <2>1 DEF PoiReady
  <2>5. PoiReady(p)'
    BY <1>2, <2>2, <2>4 DEF PoiReady
  <2>6. PoiHeld(p)'
    BY <1>2, <2>1, <2>3, <2>4 DEF PoiHeld
  <2> QED
    BY <2>5, <2>6
<1>15. EarlierFits'
  BY <1>2, <1>3, <1>4, <1>8 DEF EarlierFits
<1>16. \A n \in NPs : NpReady(n)'
  <2> TAKE n \in NPs
  <2>1. ws'[n].const /\ ws'[n].val = fitted[n].val
    BY <1>11 DEF Params
  <2>2. fits'[1].end[n].val = fitted[n].val /\ fits'[1].start[n].const = ws[n].const
    BY <1>5, <1>8
  <2>3. ws[n].const = launch'[n].const /\ settings'.stat_only
    BY <1>2, <1>3
  <2> QED
    BY <2>1, <2>2, <2>3 DEF NpReady
<1>17. ErrorsOfLastFitOnly'
  <2>1. \A p \in fits'[1].pois_to_estimate_errors : ~ fits'[1].start[p].const
    BY <1>9 DEF FitHeld
  <2>2. ~ (1 < Len(fits'))
    BY <1>8
  <2>3. pc' # "done"
    BY <1>2
  <2> QED
    BY <1>8, <2>1, <2>2, <2>3 DEF ErrorsOfLastFitOnly
<1>18. \A i \in DOMAIN fits' : FitHeld(fits[i])'
  BY <1>8, <1>9 DEF FitHeld
<1> QED
  BY <1>2, <1>3, <1>12, <1>13, <1>14, <1>15, <1>16, <1>17, <1>18
  DEF IInv, BeforeData, BeforeFits, WithPois, WithData, LastFitHoldsNpsAsAsked

LEMMA LastFitKeeps == ASSUME IInv, LastFit PROVE IInv'
<1>1. PICK fitted \in Minimised(ws) : Minimize(fitted, errors_type) /\ ws' = fitted
  BY DEF LastFit
<1>2. /\ pc = "fit" /\ pc' = "done"
      /\ settings' = settings /\ data' = data /\ launch' = launch
  BY DEF LastFit
<1>3. /\ FreeFitTypeOK
      /\ settings.pois_float \subseteq POIs
      /\ data \in GlobValues \cup {Observed}
      /\ \A g \in Globs : GlobReady(g)
      /\ \A p \in POIs : PoiReady(p)
      /\ \A p \in POIs : PoiHeld(p)
      /\ EarlierFits
      /\ \A n \in NPs : NpReady(n)
      /\ \A i \in DOMAIN fits : FitHeld(fits[i])
  BY <1>2 DEF IInv, WithPois, WithData
<1> DEFINE f == [start |-> ws, end |-> fitted, errors |-> errors_type,
                 pois_to_estimate_errors |-> ErrorsFor]
<1>4. errors_type \in ErrorModes
  BY DEF errors_type, ErrorModes
<1>5. f \in Fits /\ FitHeld(f) /\ f.errors = errors_type
  BY <1>3, <1>4, FitOfReady
<1>6. f.start = ws /\ f.end = fitted
  OBVIOUS
<1>7. fits' = Append(fits, f)
  BY <1>1 DEF Minimize
<1> HIDE DEF f
<1>8. fits \in Seq(Fits) /\ settings \in Settings
  BY <1>3 DEF FreeFitTypeOK
<1>9. /\ fits' \in Seq(Fits)
      /\ Len(fits') = Len(fits) + 1 /\ fits'[Len(fits')] = f
      /\ \A i \in DOMAIN fits : fits'[i] = fits[i]
      /\ \A i \in DOMAIN fits' : i \in DOMAIN fits \/ i = Len(fits')
  BY <1>5, <1>7, <1>8
<1>10. /\ fitted \in Workspaces
       /\ \A g \in Globs : fitted[g] = ws[g]
       /\ \A p \in Params : fitted[p].const = ws[p].const
       /\ \A p \in Params : ws[p].const => fitted[p].val = ws[p].val
  BY <1>3, FittedPoint DEF FreeFitTypeOK
<1>11. FreeFitTypeOK'
  BY <1>1, <1>2, <1>3, <1>9, <1>10 DEF FreeFitTypeOK
<1>12. \A i \in DOMAIN fits' : FitHeld(fits'[i])
  BY <1>3, <1>5, <1>9
<1>13. ASSUME NEW i \in DOMAIN fits'
       PROVE  FitHeld(fits[i])'
  <2>1. FitHeld(fits'[i])
    BY <1>12
  <2> QED
    BY <1>2, <2>1 DEF FitHeld
<1>14. \A p \in POIs : PoiHeld(p)'
  <2> TAKE p \in POIs
  <2>1. p \notin settings.pois_float => ws[p].const /\ ws[p].val = launch[p].val
    BY <1>3 DEF PoiReady, PoiHeld
  <2>2. ws[p].const => fitted[p].val = ws[p].val
    BY <1>10 DEF Params
  <2> QED
    BY <1>1, <1>2, <2>1, <2>2 DEF PoiHeld
<1>15. LastFitHoldsNpsAsAsked'
  <2>1. CASE settings.stat_only
    <3>1. Len(fits) = 1 /\ 1 \in DOMAIN fits
      BY <1>3, <1>8, <2>1 DEF EarlierFits
    <3>2. Len(fits') = 2 /\ fits'[1] = fits[1] /\ fits'[Len(fits')] = f
      BY <1>9, <3>1
    <3>3. ASSUME NEW n \in NPs
          PROVE  /\ fits'[1].start[n].const = launch'[n].const
                 /\ f.start[n].const /\ f.end[n].val = fits'[1].end[n].val
      <4>1. /\ ws[n].const /\ ws[n].val = fits[1].end[n].val
            /\ fits[1].start[n].const = launch[n].const
        BY <1>3, <2>1 DEF NpReady
      <4>2. fitted[n].val = ws[n].val
        BY <1>10, <4>1 DEF Params
      <4> QED
        BY <1>2, <1>6, <3>2, <4>1, <4>2
    <3> QED
      BY <1>2, <2>1, <3>2, <3>3 DEF LastFitHoldsNpsAsAsked
  <2>2. CASE ~ settings.stat_only
    <3>1. Len(fits) = 0
      BY <1>3, <2>2 DEF EarlierFits
    <3>2. Len(fits') = 1 /\ fits'[1] = f
      BY <1>9, <3>1
    <3>3. \A n \in NPs : fits'[1].start[n].const = launch'[n].const
      BY <1>2, <1>3, <1>6, <2>2, <3>2 DEF NpReady
    <3> QED
      BY <1>2, <2>2, <3>2, <3>3 DEF LastFitHoldsNpsAsAsked
  <2> QED
    BY <2>1, <2>2
<1>16. ErrorsOfLastFitOnly'
  <2>1. \A i \in DOMAIN fits' :
          \A p \in fits'[i].pois_to_estimate_errors : ~ fits'[i].start[p].const
    BY <1>12 DEF FitHeld
  <2>2. ASSUME NEW i \in DOMAIN fits', i < Len(fits')
        PROVE  fits'[i].errors = "DEFAULT"
    <3>1. i \in DOMAIN fits /\ fits'[i] = fits[i]
      BY <1>9, <2>2
    <3>2. settings.stat_only /\ Len(fits) = 1 /\ fits[1].errors = "DEFAULT"
      BY <1>3, <3>1 DEF EarlierFits
    <3> QED
      BY <1>8, <3>1, <3>2
  <2>3. errors_type' = errors_type
    BY <1>2 DEF errors_type
  <2> QED
    BY <1>5, <1>9, <2>1, <2>2, <2>3 DEF ErrorsOfLastFitOnly
<1> QED
  BY <1>2, <1>3, <1>11, <1>13, <1>14, <1>15, <1>16
  DEF IInv, BeforeData, BeforeFits, WithPois, WithData

LEMMA StutterKeeps == ASSUME IInv, UNCHANGED freeFitVars PROVE IInv'
BY DEF IInv, freeFitVars, FreeFitTypeOK, BeforeData, BeforeFits, WithPois, WithData,
       GlobReady, PoiReady, PoiHeld, NpReady, FitHeld, EarlierFits,
       LastFitHoldsNpsAsAsked, ErrorsOfLastFitOnly, errors_type

THEOREM FreeFitInvariance == FreeFitSpec => []IInv
<1>1. FreeFitInit => IInv
  BY InitIInv
<1>2. IInv /\ [FreeFitNext]_freeFitVars => IInv'
  BY InitFromCommandLineKeeps, GetDataKeeps, PreparePoisKeeps, StatOnlyFitKeeps,
     LastFitKeeps, StutterKeeps
  DEF FreeFitNext, RunFit
<1> QED
  BY <1>1, <1>2, PTL DEF FreeFitSpec

\* The dataset is the one of the study: generated ones are not the observed
\* one.
DataAsAsked == pc \in WithData => (data = Observed) = (settings.prePostFit = "OBSERVED")

LEMMA GetDataAsAsked == ASSUME GetData PROVE DataAsAsked'
<1>1. settings' = settings
  BY DEF GetData
<1>2. CASE settings.prePostFit = "OBSERVED" /\ data' = Observed
  BY <1>1, <1>2 DEF DataAsAsked
<1>3. ASSUME NEW w, Generate(w), settings.prePostFit # "OBSERVED"
      PROVE  DataAsAsked'
  <2>1. data' \in GlobValues
    BY <1>3, FreeFitAssumption DEF Generate
  <2> QED
    BY <1>1, <1>3, <2>1, FreeFitAssumption DEF DataAsAsked
<1> QED
  BY <1>2, <1>3 DEF GetData

LEMMA DataStaysAsAsked == DataAsAsked /\ [FreeFitNext]_freeFitVars => DataAsAsked'
<1> SUFFICES ASSUME DataAsAsked, [FreeFitNext]_freeFitVars PROVE DataAsAsked'
  OBVIOUS
<1>1. ASSUME NEW s \in Settings, InitFromCommandLine(s) PROVE DataAsAsked'
  BY <1>1 DEF InitFromCommandLine, DataAsAsked, WithData
<1>2. CASE GetData
  BY <1>2, GetDataAsAsked
<1>3. CASE PreparePois \/ StatOnlyFit \/ LastFit \/ UNCHANGED freeFitVars
  <2>1. settings' = settings /\ data' = data /\ (pc' \in WithData => pc \in WithData)
    BY <1>3 DEF PreparePois, StatOnlyFit, LastFit, freeFitVars, WithData
  <2> QED
    BY <2>1 DEF DataAsAsked
<1> QED
  BY <1>1, <1>2, <1>3 DEF FreeFitNext, RunFit

LEMMA DataRight == FreeFitSpec => []DataAsAsked
<1>1. FreeFitInit => DataAsAsked
  BY DEF FreeFitInit, DataAsAsked, WithData
<1> QED
  BY <1>1, DataStaysAsAsked, PTL DEF FreeFitSpec

-----------------------------------------------------------------------------
\* The variables of a free fit have their types.
THEOREM FreeFitTypeCorrect == FreeFitSpec => []FreeFitTypeOK
<1>1. IInv => FreeFitTypeOK
  BY DEF IInv
<1> QED
  BY <1>1, FreeFitInvariance, PTL

\* In every fit the POIs that float are the required ones, and the others
\* stay where the workspace has them.
THEOREM RequiredPoisOnly == FreeFitSpec => []OnlyRequiredPoisFloat
<1>1. IInv => OnlyRequiredPoisFloat
  BY DEF IInv, FitHeld, PoiHeld, OnlyRequiredPoisFloat
<1> QED
  BY <1>1, FreeFitInvariance, PTL

\* The last fit of a stat-only request holds the NPs where the first one has
\* left them.
THEOREM NpsHeldAsAsked == FreeFitSpec => []LastFitHoldsNpsAsAsked
<1>1. IInv => LastFitHoldsNpsAsAsked
  BY DEF IInv
<1> QED
  BY <1>1, FreeFitInvariance, PTL

\* Every fit has the global observables of its dataset.
THEOREM FreeFitGlobsRight == FreeFitSpec => []FreeFitGlobsBelongToData
<1>1. IInv => FreeFitGlobsBelongToData
  BY DEF IInv, FitHeld, FreeFitGlobsBelongToData
<1> QED
  BY <1>1, FreeFitInvariance, PTL

\* The kind of errors that is asked for is estimated in the last fit and in no
\* other, and what MINOS scans floats.
THEOREM ErrorsInLastFit == FreeFitSpec => []ErrorsOfLastFitOnly
<1>1. IInv => ErrorsOfLastFitOnly
  BY DEF IInv
<1> QED
  BY <1>1, FreeFitInvariance, PTL

-----------------------------------------------------------------------------
(***************************************************************************)
(* The program: what is known at each point of main.                       *)
(***************************************************************************)
AskedForNoTask == {"test", "help", "h"} \cap args.keys # {}

Checked == args.parsed \subseteq ApplicationKeys \cup ConfigKeys \cup TaskKeys(Task)

\* What is known at each point of main.
AInv ==
  /\ at \in {"start", "logger", "test", "run", "options", "work", "finalize", "end"}
  /\ at # "end" => exit = "running"
  /\ at \in {"start", "logger"} => requested = {}
  /\ at \in {"test", "run"} => requested = ApplicationKeys
  /\ at = "options" => requested = ApplicationKeys
  /\ at = "test" => AskedForNoTask
  /\ at = "run" => applicationState = "WAITING_REQUEST" \/ AskedForNoTask
  /\ at = "run" => applicationState # "APP_ERROR"
  /\ at \in {"options", "work"} =>
       /\ HasTask /\ Task \in Tasks \ {"compute_unconstrained"}
       /\ applicationState = "WAITING_REQUEST"
  /\ at = "work" /\ Task # "plot_scan" => Checked
  /\ at = "finalize" =>
       IF applicationState = "APP_ERROR"
       THEN HasTask /\ Task = "compute_unconstrained"
       ELSE finished \/ AskedForNoTask \/ ~ HasTask \/ Task \notin Tasks
  /\ ExitStatusTellsTheTruth

-----------------------------------------------------------------------------
LEMMA AppInitAInv == AppInit => AInv
BY DEF AppInit, AInv, ExitStatusTellsTheTruth

\* The steps before the task.
LEMMA BeforeRunKeeps ==
  ASSUME AInv, ParseAndReadConfig \/ InitLoggerAndState \/ ProcessTest
  PROVE  AInv'
<1>1. CASE ParseAndReadConfig
  BY <1>1 DEF ParseAndReadConfig, AInv, ExitStatusTellsTheTruth
<1>2. CASE InitLoggerAndState
  <2>1. /\ at = "logger" /\ exit = "running" /\ requested' = ApplicationKeys
        /\ args' = args /\ finished' = finished
    BY <1>2 DEF InitLoggerAndState, AInv
  <2>2. CASE Abort
    BY <2>1, <2>2 DEF Abort, AInv, ExitStatusTellsTheTruth
  <2>3. CASE /\ applicationState' = StateAfterInit
             /\ at' = (IF HasKey(args, "test") THEN "test" ELSE "run")
             /\ exit' = exit
    <3>1. AskedForNoTask \/ StateAfterInit = "WAITING_REQUEST"
      BY DEF StateAfterInit, AskedForNoTask, HasKey
    <3>2. HasKey(args, "test") => AskedForNoTask
      BY DEF AskedForNoTask, HasKey
    <3>3. AskedForNoTask' = AskedForNoTask
      BY <2>1 DEF AskedForNoTask
    <3>4. StateAfterInit # "APP_ERROR"
      BY DEF StateAfterInit
    <3> QED
      BY <2>1, <2>3, <3>1, <3>2, <3>3, <3>4 DEF AInv, ExitStatusTellsTheTruth
  <2> QED
    BY <1>2, <2>2, <2>3 DEF InitLoggerAndState
<1>3. CASE ProcessTest
  <2>1. /\ at = "test" /\ AskedForNoTask /\ requested = ApplicationKeys /\ exit = "running"
        /\ args' = args /\ requested' = requested /\ finished' = finished
    BY <1>3 DEF ProcessTest, AInv
  <2>2. AskedForNoTask'
    BY <2>1 DEF AskedForNoTask
  <2>3. CASE Abort
    BY <2>1, <2>3 DEF Abort, AInv, ExitStatusTellsTheTruth
  <2>4. CASE applicationState' = "FINISHED" /\ at' = "run" /\ exit' = exit
    BY <2>1, <2>2, <2>4 DEF AInv, ExitStatusTellsTheTruth
  <2> QED
    BY <1>3, <2>3, <2>4 DEF ProcessTest
<1> QED
  BY <1>1, <1>2, <1>3

LEMMA RunKeeps == ASSUME AInv, Run PROVE AInv'
<1>1. /\ at = "run" /\ exit = "running" /\ exit' = exit /\ requested = ApplicationKeys
      /\ UNCHANGED <<args, requested, finished>>
      /\ applicationState = "WAITING_REQUEST" \/ AskedForNoTask
      /\ applicationState # "APP_ERROR"
  BY DEF Run, AInv
<1>2. /\ AskedForNoTask' = AskedForNoTask /\ HasTask' = HasTask /\ Task' = Task
  BY <1>1 DEF AskedForNoTask, HasTask, Task, HasKey, GetVal
<1>3. CASE ~ isReady /\ at' = "finalize" /\ applicationState' = applicationState
  BY <1>1, <1>2, <1>3 DEF AInv, ExitStatusTellsTheTruth, isReady
<1>4. CASE /\ isReady /\ HasTask /\ Task \in Tasks \ {"compute_unconstrained"}
           /\ at' = "options" /\ applicationState' = applicationState
  BY <1>1, <1>2, <1>4 DEF AInv, ExitStatusTellsTheTruth, isReady
<1>5. CASE /\ isReady /\ HasTask /\ Task = "compute_unconstrained"
           /\ at' = "finalize" /\ applicationState' = "APP_ERROR"
  BY <1>1, <1>2, <1>5 DEF AInv, ExitStatusTellsTheTruth
<1>6. CASE /\ isReady /\ (HasTask => Task \notin Tasks)
           /\ at' = "finalize" /\ applicationState' = "FINISHED"
  BY <1>1, <1>2, <1>6 DEF AInv, ExitStatusTellsTheTruth
<1> QED
  BY <1>3, <1>4, <1>5, <1>6 DEF Run

LEMMA ReadOptionsKeeps ==
  ASSUME AInv, ReadOptions \/ ReadOptionsPlotScan
  PROVE  AInv'
<1>1. /\ at = "options" /\ exit = "running" /\ requested = ApplicationKeys
      /\ UNCHANGED <<args, applicationState, finished>>
      /\ HasTask /\ Task \in Tasks \ {"compute_unconstrained"}
      /\ applicationState = "WAITING_REQUEST"
  BY DEF ReadOptions, ReadOptionsPlotScan, AInv
<1>2. AskedForNoTask' = AskedForNoTask /\ HasTask' = HasTask /\ Task' = Task
  BY <1>1 DEF AskedForNoTask, HasTask, Task, HasKey, GetVal
<1>3. CASE Abort
  BY <1>1, <1>3 DEF Abort, AInv, ExitStatusTellsTheTruth
<1>4. CASE /\ ReadOptions /\ at' = "work" /\ exit' = exit
           /\ UnknownKeys(args, requested') = {}
  <2>1. requested' = ApplicationKeys \cup TaskKeys(Task) \cup ConfigKeys
    BY <1>1, <1>4 DEF ReadOptions
  <2>2. Checked'
    BY <1>1, <1>2, <1>4, <2>1 DEF UnknownKeys, Checked
  <2> QED
    BY <1>1, <1>2, <1>4, <2>2 DEF AInv, ExitStatusTellsTheTruth
<1>5. CASE ReadOptionsPlotScan /\ at' = "work" /\ exit' = exit
  <2>1. Task' = "plot_scan"
    BY <1>2, <1>5 DEF ReadOptionsPlotScan
  <2> QED
    BY <1>1, <1>2, <1>5, <2>1 DEF AInv, ExitStatusTellsTheTruth
<1>6. ReadOptions => Abort \/ /\ at' = "work" /\ exit' = exit
                              /\ UnknownKeys(args, requested') = {}
  BY DEF ReadOptions, ReportStatus
<1>7. ReadOptionsPlotScan => Abort \/ (at' = "work" /\ exit' = exit)
  BY DEF ReadOptionsPlotScan
<1> QED
  BY <1>3, <1>4, <1>5, <1>6, <1>7

\* A task ends by returning or by an exception.
LEMMA WorkKeeps ==
  ASSUME AInv, Work \/ StartFreeFit \/ FailToReadWorkspace \/ FreeFitStep \/ FreeFitReturns
  PROVE  AInv'
<1>1. /\ at = "work" /\ exit = "running"
      /\ UNCHANGED <<args, requested>>
      /\ HasTask /\ Task \in Tasks \ {"compute_unconstrained"}
      /\ applicationState = "WAITING_REQUEST"
      /\ Task # "plot_scan" => Checked
  BY DEF Work, StartFreeFit, FailToReadWorkspace, FreeFitStep, FreeFitReturns, AInv, appVars
<1>2. /\ AskedForNoTask' = AskedForNoTask /\ HasTask' = HasTask /\ Task' = Task
      /\ Checked' = Checked
  BY <1>1 DEF AskedForNoTask, HasTask, Task, HasKey, GetVal, Checked
<1>3. CASE Abort
  BY <1>1, <1>3 DEF Abort, AInv, ExitStatusTellsTheTruth
<1>4. CASE /\ finished' = TRUE /\ at' = "finalize" /\ exit' = exit
           /\ applicationState' \in {"FINISHED", applicationState}
  BY <1>1, <1>2, <1>4 DEF AInv, ExitStatusTellsTheTruth
<1>5. CASE UNCHANGED appVars
  BY <1>1, <1>2, <1>5 DEF AInv, ExitStatusTellsTheTruth, appVars
<1>6. Abort \/ UNCHANGED appVars
        \/ /\ finished' = TRUE /\ at' = "finalize" /\ exit' = exit
           /\ applicationState' \in {"FINISHED", applicationState}
  BY DEF Work, StartFreeFit, FailToReadWorkspace, FreeFitStep, FreeFitReturns
<1> QED
  BY <1>3, <1>4, <1>5, <1>6

LEMMA FinalizeKeeps == ASSUME AInv, Finalize PROVE AInv'
<1>1. /\ at = "finalize" /\ at' = "end"
      /\ exit' = IF applicationState = "APP_ERROR" THEN "failure" ELSE "success"
      /\ UNCHANGED <<args, requested, applicationState, finished>>
  BY DEF Finalize
<1>2. IF applicationState = "APP_ERROR"
      THEN HasTask /\ Task = "compute_unconstrained"
      ELSE finished \/ AskedForNoTask \/ ~ HasTask \/ Task \notin Tasks
  BY <1>1 DEF AInv
<1>3. ExitStatusTellsTheTruth'
  BY <1>1, <1>2 DEF ExitStatusTellsTheTruth, AskedForNoTask, HasTask, HasKey, Task, GetVal
<1> QED
  BY <1>1, <1>3 DEF AInv

LEMMA AppStutterKeeps == ASSUME AInv, UNCHANGED appVars PROVE AInv'
BY DEF AInv, appVars, AskedForNoTask, HasTask, Task, HasKey, GetVal, Checked,
       ExitStatusTellsTheTruth

THEOREM AppInvariance == AppSpec => []AInv
<1>1. AppInit => AInv
  BY AppInitAInv
<1>2. AInv /\ [AppNext]_<<appVars, freeFitVars>> => AInv'
  BY BeforeRunKeeps, RunKeeps, ReadOptionsKeeps, WorkKeeps, FinalizeKeeps, AppStutterKeeps
  DEF AppNext
<1> QED
  BY <1>1, <1>2, PTL DEF AppSpec

-----------------------------------------------------------------------------
\* The exit status tells whether the task has done its work.
THEOREM ExitStatusTrue == AppSpec => []ExitStatusTellsTheTruth
<1>1. AInv => ExitStatusTellsTheTruth
  BY DEF AInv
<1> QED
  BY <1>1, AppInvariance, PTL

-----------------------------------------------------------------------------
\* What the task knows of its command line, and what has become of it.
Unread == args.parsed \ (ApplicationKeys \cup TaskKeys(Task) \cup ConfigKeys)

RInv ==
  /\ argv \in CommandLines
  /\ args = IF at = "start" THEN NoArguments ELSE ParseInput(argv)
  /\ requested \subseteq Requestable
  /\ configFile \in {"good", "missing", "broken"}
  /\ applicationState \in ApplicationStates
  /\ exit \in {"running", "aborted", "success", "failure"}
  /\ reported \in BOOLEAN /\ finished \in BOOLEAN
  /\ finished => at \in {"finalize", "end"}
  /\ finished /\ Task = "free_fit" => pc = "done"
  /\ pc # "off" => /\ at \in {"work", "finalize", "end"}
                   /\ HasTask /\ Task = "free_fit"
                   /\ settings = FreeFitSettings
  /\ reported => HasTask /\ Unread # {}

LEMMA AppInitRInv == AppInit => RInv
BY DEF AppInit, RInv, ApplicationStates, FreeFitInit

\* What is read of the command line depends on nothing else.
LEMMA ReadingsStay ==
  ASSUME args' = args
  PROVE  /\ HasTask' = HasTask /\ Task' = Task /\ FreeFitSettings' = FreeFitSettings
         /\ Unread' = Unread
BY DEF HasTask, Task, HasKey, GetVal, GetVals, FreeFitSettings, Named, Study, Unread

\* The steps of main before the work begins, and the last one.
LEMMA MainKeepsRInv ==
  ASSUME AInv, RInv, ParseAndReadConfig \/ InitLoggerAndState \/ ProcessTest \/ Run \/ Finalize
  PROVE  RInv'
<1>1. CASE ParseAndReadConfig
  <2>1. at = "start" /\ at' = "logger" /\ args' = ParseInput(argv)
        /\ UNCHANGED <<argv, configFile, requested, exit, reported, finished, freeFitVars>>
        /\ applicationState' \in ApplicationStates
    BY <1>1 DEF ParseAndReadConfig, RInv, ApplicationStates
  <2>2. args = NoArguments
    BY <2>1 DEF RInv
  <2>3. ~ finished /\ ~ reported /\ pc = "off"
    BY <2>1, <2>2 DEF RInv, HasTask, HasKey, NoArguments
  <2> QED
    BY <2>1, <2>3 DEF RInv, freeFitVars
<1>2. CASE InitLoggerAndState \/ ProcessTest \/ Run \/ Finalize
  <2>1. UNCHANGED <<argv, configFile, args, reported, finished, freeFitVars>>
    BY <1>2 DEF InitLoggerAndState, ProcessTest, Run, Finalize
  <2>2. /\ at # "start" /\ at' # "start"
        /\ at \in {"logger", "test", "run", "finalize"}
        /\ at = "finalize" => at' = "end"
    BY <1>2 DEF InitLoggerAndState, ProcessTest, Run, Finalize, Abort
  <2>3. requested' \subseteq Requestable
    BY <1>2 DEF InitLoggerAndState, ProcessTest, Run, Finalize, RInv, Requestable
  <2>4. applicationState' \in ApplicationStates
    BY <1>2
    DEF InitLoggerAndState, ProcessTest, Run, Finalize, StateAfterInit, RInv, ApplicationStates
  <2>5. exit' \in {"running", "aborted", "success", "failure"}
    BY <1>2 DEF InitLoggerAndState, ProcessTest, Run, Finalize, Abort, RInv
  <2>6. HasTask' = HasTask /\ Task' = Task /\ FreeFitSettings' = FreeFitSettings
        /\ Unread' = Unread
    BY <2>1, ReadingsStay
  <2> QED
    BY <2>1, <2>2, <2>3, <2>4, <2>5, <2>6 DEF RInv, freeFitVars
<1> QED
  BY <1>1, <1>2

\* The task asks for its keys.
LEMMA OptionsKeepRInv ==
  ASSUME AInv, RInv, ReadOptions \/ ReadOptionsPlotScan
  PROVE  RInv'
<1>1. /\ UNCHANGED <<argv, configFile, args, applicationState, finished, freeFitVars>>
      /\ at = "options" /\ at' \in {"work", "end"}
      /\ exit' \in {exit, "aborted"}
  BY DEF ReadOptions, ReadOptionsPlotScan, ReportStatus, Abort
<1>2. /\ HasTask /\ ~ finished /\ pc = "off"
      /\ requested = ApplicationKeys
  BY <1>1 DEF AInv, RInv
<1>3. requested' \subseteq Requestable
  BY <1>2 DEF ReadOptions, ReadOptionsPlotScan, Requestable
<1>4. reported' \in BOOLEAN /\ (reported' => Unread # {})
  <2>1. CASE reported' = reported
    BY <2>1 DEF RInv
  <2>2. CASE ReadOptions /\ UnknownKeys(args, requested') # {} /\ reported' = TRUE
    <3>1. requested' = ApplicationKeys \cup TaskKeys(Task) \cup ConfigKeys
      BY <1>2, <2>2 DEF ReadOptions
    <3> QED
      BY <2>2, <3>1 DEF UnknownKeys, Unread
  <2> QED
    BY <2>1, <2>2 DEF ReadOptions, ReadOptionsPlotScan, ReportStatus
<1>5. HasTask' = HasTask /\ Unread' = Unread
  BY <1>1, ReadingsStay
<1> QED
  BY <1>1, <1>2, <1>3, <1>4, <1>5 DEF RInv, freeFitVars

\* The task does its work.
LEMMA WorkKeepsRInv ==
  ASSUME AInv, RInv,
         Work \/ StartFreeFit \/ FailToReadWorkspace \/ FreeFitStep \/ FreeFitReturns
  PROVE  RInv'
<1>1. /\ UNCHANGED <<argv, configFile, args, requested, reported>>
      /\ at = "work" /\ at' \in {"work", "finalize", "end"}
      /\ exit' \in {exit, "aborted"}
      /\ applicationState' \in {applicationState, "FINISHED"}
      /\ finished' \in {finished, TRUE} /\ (finished' # finished => at' = "finalize")
  BY DEF Work, StartFreeFit, FailToReadWorkspace, FreeFitStep, FreeFitReturns, appVars, Abort
<1>2. HasTask /\ ~ finished
  BY <1>1 DEF AInv, RInv
<1>3. /\ HasTask' = HasTask /\ Task' = Task /\ FreeFitSettings' = FreeFitSettings
      /\ Unread' = Unread
  BY <1>1, ReadingsStay
<1>4. /\ finished' /\ Task = "free_fit" => pc' = "done"
      /\ pc' # "off" => Task = "free_fit" /\ settings' = FreeFitSettings
  <2>1. CASE Work \/ FailToReadWorkspace
    BY <1>2, <2>1 DEF Work, FailToReadWorkspace, freeFitVars, RInv
  <2>2. CASE StartFreeFit
    BY <1>2, <2>2 DEF StartFreeFit, InitFromCommandLine, appVars
  <2>3. CASE FreeFitStep
    <3>1. settings' = settings /\ pc # "off" /\ finished' = finished
      BY <2>3 DEF FreeFitStep, RunFit, GetData, PreparePois, StatOnlyFit, LastFit, appVars
    <3> QED
      BY <1>2, <3>1 DEF RInv
  <2>4. CASE FreeFitReturns
    BY <1>2, <2>4 DEF FreeFitReturns, freeFitVars, RInv
  <2> QED
    BY <2>1, <2>2, <2>3, <2>4
<1> QED
  BY <1>1, <1>2, <1>3, <1>4 DEF RInv, ApplicationStates

LEMMA StutterKeepsRInv ==
  ASSUME RInv, UNCHANGED <<appVars, freeFitVars>> PROVE RInv'
<1>1. args' = args
  BY DEF appVars
<1> QED
  BY <1>1, ReadingsStay DEF RInv, appVars, freeFitVars

THEOREM ReadInvariance == AppSpec => []RInv
<1>1. AInv /\ RInv /\ [AppNext]_<<appVars, freeFitVars>> => RInv'
  BY MainKeepsRInv, OptionsKeepRInv, WorkKeepsRInv, StutterKeepsRInv DEF AppNext
<1> QED
  BY <1>1, AppInitRInv, AppInvariance, PTL DEF AppSpec

-----------------------------------------------------------------------------
\* A task works on a command line that holds its name.
LEMMA LineOfTask ==
  ASSUME RInv, HasTask
  PROVE  argv \in Seq(Token) /\ argv # <<>> /\ args = ParseInput(argv) /\ at # "start"
<1>1. ~ HasKey(NoArguments, "task")
  BY DEF HasKey, NoArguments
<1>2. at # "start" /\ args = ParseInput(argv)
  BY <1>1 DEF RInv, HasTask
<1>3. argv # <<>>
  BY <1>1, <1>2 DEF HasTask, ParseInput
<1> QED
  BY <1>2, <1>3, ApplicationAssumption DEF RInv

\* What the free fit is told has its type.
LEMMA FreeFitSettingsType == ASSUME RInv, HasTask PROVE FreeFitSettings \in Settings
<1>1. argv \in Seq(Token) /\ argv # <<>> /\ args = ParseInput(argv)
  BY LineOfTask
<1>2. \A i \in DOMAIN argv : argv[i].text \in Names /\ ToLowCase(argv[i].text) \in ErrorNames
  BY ApplicationAssumption DEF RInv
<1>3. \A key : Named(key) \in SUBSET Names
  BY <1>1, <1>2, ValuesAreWords DEF Named, GetVals
<1>4. ASSUME HasKey(args, "errors")
      PROVE  ToLowCase(GetVal(args, "errors")) \in ErrorNames
  <2> DEFINE vals == args.ops["errors"]
  <2>1. /\ vals \in Seq(STRING)
        /\ \A m \in DOMAIN vals : \E j \in DOMAIN argv : vals[m] = argv[j].text
    BY <1>1, <1>4, ValuesAreWords
  <2>2. CASE vals = <<>>
    BY <2>2, ApplicationAssumption DEF GetVal, ToLowCase
  <2>3. CASE vals # <<>>
    <3>1. 1 \in DOMAIN vals
      BY <2>1, <2>3
    <3>2. GetVal(args, "errors") = vals[1]
      BY <2>3 DEF GetVal
    <3> QED
      BY <1>2, <2>1, <3>1, <3>2
  <2> QED
    BY <2>2, <2>3
<1>5. Study \in StudyTypes /\ HasKey(args, "stat_only") \in BOOLEAN
  BY DEF Study, StudyTypes, HasKey
<1> QED
  BY <1>3, <1>4, <1>5 DEF FreeFitSettings, Settings

\* The free fit that the program makes is one of FreeFit: nothing else in the
\* program touches its workspace, its data or its settings, and what the
\* command line says is something a free fit can be told.
THEOREM ImplementsFreeFit == AppSpec => FreeFitSpec
<1>1. AppInit => FreeFitInit
  BY DEF AppInit
<1>2. AInv /\ RInv /\ [AppNext]_<<appVars, freeFitVars>> => [FreeFitNext]_freeFitVars
  <2> SUFFICES ASSUME AInv, RInv, [AppNext]_<<appVars, freeFitVars>>
               PROVE  [FreeFitNext]_freeFitVars
    OBVIOUS
  <2>1. CASE StartFreeFit
    <3>1. InitFromCommandLine(FreeFitSettings) /\ at = "work"
      BY <2>1 DEF StartFreeFit
    <3>2. FreeFitSettings \in Settings
      BY <3>1, FreeFitSettingsType DEF AInv
    <3> QED
      BY <3>1, <3>2 DEF FreeFitNext
  <2>2. CASE FreeFitStep
    BY <2>2 DEF FreeFitStep, FreeFitNext
  <2>3. CASE UNCHANGED freeFitVars
    BY <2>3
  <2> QED
    BY <2>1, <2>2, <2>3
    DEF AppNext, ParseAndReadConfig, InitLoggerAndState, ProcessTest, Run, ReadOptions,
        ReadOptionsPlotScan, Work, FailToReadWorkspace, FreeFitReturns, Finalize
<1> QED
  BY <1>1, <1>2, AppInvariance, ReadInvariance, PTL DEF AppSpec, FreeFitSpec

\* So in the program, too, only the required POIs float ...
THEOREM RequiredPoisOnlyInProgram == AppSpec => []OnlyRequiredPoisFloat
BY ImplementsFreeFit, RequiredPoisOnly, PTL

\* ... every fit has the global observables of its dataset ...
THEOREM GlobsRightInProgram == AppSpec => []FreeFitGlobsBelongToData
BY ImplementsFreeFit, FreeFitGlobsRight, PTL

\* ... the last fit holds the NPs as the flag asks ...
THEOREM NpsHeldInProgram == AppSpec => []LastFitHoldsNpsAsAsked
BY ImplementsFreeFit, NpsHeldAsAsked, PTL

\* ... and the kind of errors that is asked for is estimated in the last fit.
THEOREM ErrorsInLastFitOfProgram == AppSpec => []ErrorsOfLastFitOnly
BY ImplementsFreeFit, ErrorsInLastFit, PTL

\* The variables of the program have their types.
THEOREM AppTypeCorrect == AppSpec => []AppTypeOK
<1>1. AInv /\ RInv /\ FreeFitTypeOK => AppTypeOK
  <2> SUFFICES ASSUME AInv, RInv, FreeFitTypeOK PROVE AppTypeOK
    OBVIOUS
  <2>1. /\ DOMAIN args.ops = args.keys /\ args.parsed \subseteq args.keys
        /\ \A key \in args.keys : args.ops[key] \in Seq(STRING)
    <3>1. CASE args = NoArguments
      BY <3>1 DEF NoArguments
    <3>2. CASE args # NoArguments
      <4>1. args = ParseInput(argv) /\ argv \in Seq(Token)
        BY <3>2, ApplicationAssumption DEF RInv
      <4>2. argv # <<>>
        BY <3>2, <4>1 DEF ParseInput
      <4> QED
        BY <4>1, <4>2, ParseInputRight
    <3> QED
      BY <3>1, <3>2
  <2> QED
    BY <2>1 DEF AppTypeOK, AInv, RInv
<1> QED
  BY <1>1, AppInvariance, ReadInvariance, ImplementsFreeFit, FreeFitTypeCorrect, PTL

\* However many words there are, in whatever order, the values of a key are
\* the words behind its last occurrence, and every key is checked.
THEOREM ParsedRight == AppSpec => []ParsedAsWritten
<1>1. RInv => ParsedAsWritten
  BY ParseInputSaysWhatIsWritten, ApplicationAssumption DEF RInv, ParsedAsWritten
<1> QED
  BY <1>1, ReadInvariance, PTL

\* No work begins on a command line that holds a key nobody reads.
THEOREM UnknownKeysStop == AppSpec => []UnknownKeysStopTheTask
<1>1. AInv /\ ParsedAsWritten => UnknownKeysStopTheTask
  <2> SUFFICES ASSUME AInv, ParsedAsWritten, at = "work", Task # "plot_scan",
                      NEW i \in DOMAIN argv, argv[i].dashed
               PROVE  argv[i].text \in ApplicationKeys \cup ConfigKeys \cup TaskKeys(Task)
    BY DEF UnknownKeysStopTheTask
  <2>1. args.parsed \subseteq ApplicationKeys \cup ConfigKeys \cup TaskKeys(Task)
    BY DEF AInv, Checked
  <2>2. SaysWhatIsWritten(argv, args)
    BY DEF ParsedAsWritten
  <2>3. i \in {j \in DOMAIN argv : argv[j].dashed}
    OBVIOUS
  <2>4. args.parsed = {argv[j].text : j \in {k \in DOMAIN argv : argv[k].dashed}}
    BY <2>2, <2>3 DEF SaysWhatIsWritten
  <2> QED
    BY <2>1, <2>3, <2>4
<1> QED
  BY <1>1, AppInvariance, ParsedRight, PTL

\* Every documented option of a task is among the keys it asks for in time,
\* except for --out of the free fit.
LEMMA DocumentedAreKnown ==
  ASSUME NEW task
  PROVE  DocumentedOptions(task) \ (IF task = "free_fit" THEN {"out"} ELSE {})
           \subseteq ApplicationKeys \cup TaskKeys(task) \cup ConfigKeys
<1>1. CASE task \in {"compute_ranking", "plot_ranking", "compute_hesse_nps"}
  <2>1. DocumentedOptions(task) \subseteq ConfigKeys
    BY <1>1 DEF DocumentedOptions, ConfigKeys, NumericKeys
  <2> QED
    BY <2>1
<1>2. CASE task \in {"nll_scan", "free_fit", "get_missing_nps"}
  <2>1. DocumentedOptions(task) \ (IF task = "free_fit" THEN {"out"} ELSE {})
          \subseteq TaskKeys(task) \cup ConfigKeys
    BY <1>2 DEF DocumentedOptions, TaskKeys, ScanKeys, ConfigKeys, NumericKeys
  <2> QED
    BY <2>1
<1>3. CASE task \notin {"compute_ranking", "plot_ranking", "compute_hesse_nps",
                        "nll_scan", "free_fit", "get_missing_nps"}
  BY <1>3 DEF DocumentedOptions
<1> QED
  BY <1>1, <1>2, <1>3

\* Whatever the command line, no documented option of any task is what the
\* check rejects it for, except for --out of the free fit.
THEOREM OnlyFreeFitOutRejected == AppSpec => []OnlyFreeFitOutIsRejected
<1>1. RInv => OnlyFreeFitOutIsRejected
  <2> SUFFICES ASSUME RInv, reported, OnlyDocumented
               PROVE  Task = "free_fit" /\ \E i \in DOMAIN argv : argv[i] = Key("out")
    BY DEF OnlyFreeFitOutIsRejected
  <2>1. HasTask /\ Unread # {}
    BY DEF RInv
  <2>2. argv \in Seq(Token) /\ argv # <<>> /\ args = ParseInput(argv)
    BY <2>1, LineOfTask
  <2>3. PICK key \in args.parsed :
          key \notin ApplicationKeys \cup TaskKeys(Task) \cup ConfigKeys
    BY <2>1 DEF Unread
  <2>4. key # "task"
    BY <2>3 DEF ApplicationKeys
  <2>5. /\ args.keys = {argv[1].text} \cup {argv[i].text : i \in Written(argv, Len(argv))}
        /\ args.parsed \subseteq args.keys
        /\ Written(argv, Len(argv)) # {} =>
             args.parsed = {argv[i].text : i \in Written(argv, Len(argv))}
    BY <2>2, ParseInputRight
  <2>6. Written(argv, Len(argv)) # {}
    <3>1. "task" \in args.keys
      BY <2>1 DEF HasTask, HasKey
    <3> QED
      BY <2>3, <2>4, <2>5, <3>1
  <2>7. PICK i \in Written(argv, Len(argv)) : key = argv[i].text
    BY <2>3, <2>5, <2>6
  <2>8. i \in DOMAIN argv /\ argv[i].dashed
    BY <2>2, <2>7 DEF Written
  <2>9. key \in DocumentedOptions(Task)
    BY <2>4, <2>7, <2>8 DEF OnlyDocumented
  <2>10. Task = "free_fit" /\ key = "out"
    BY <2>3, <2>9, DocumentedAreKnown
  <2>11. argv[i] = Key("out")
    <3>1. argv[i] \in Token
      BY <2>2, <2>8
    <3> QED
      BY <2>7, <2>8, <2>10, <3>1, TokenIs
  <2> QED
    BY <2>8, <2>10, <2>11
<1> QED
  BY <1>1, ReadInvariance, PTL

\* When a free fit has ended, it was the one that is written on the command
\* line: the POIs that floated, the dataset and the number of fits.
THEOREM FreeFitAskedFor == AppSpec => []FreeFitIsTheOneAskedFor
<1>1. RInv /\ IInv /\ DataAsAsked => FreeFitIsTheOneAskedFor
  <2> SUFFICES ASSUME RInv, IInv, DataAsAsked, finished, Task = "free_fit"
               PROVE  FreeFitIsTheOneAskedFor
    BY DEF FreeFitIsTheOneAskedFor
  <2> DEFINE has(key) == argv[1].text = key \/ \E i \in DOMAIN argv : argv[i] = Key(key)
  <2>1. pc = "done" /\ HasTask /\ settings = FreeFitSettings
    BY DEF RInv
  <2>2. argv \in Seq(Token) /\ argv # <<>> /\ args = ParseInput(argv)
    BY <2>1, LineOfTask
  <2>3. \A key : HasKey(args, key) <=> has(key)
    BY <2>2, KeyIsWritten
  <2>4. /\ settings.pois_float = Named("pois_float") /\ settings.prePostFit = Study
        /\ settings.stat_only = HasKey(args, "stat_only")
    BY <2>1 DEF FreeFitSettings
  <2>5. ASSUME NEW p PROVE p \in Named("pois_float") <=> ValueIsWritten(argv, "pois_float", p)
    <3>1. CASE HasKey(args, "pois_float")
      <4>1. p \in Named("pois_float") <=>
              \E m \in DOMAIN args.ops["pois_float"] : args.ops["pois_float"][m] = p
        BY <3>1 DEF Named, GetVals
      <4>2. (\E m \in DOMAIN args.ops["pois_float"] : args.ops["pois_float"][m] = p)
              <=> ValueIsWritten(argv, "pois_float", p)
        BY <2>2, <3>1, ValuesAreWritten
      <4> QED
        BY <4>1, <4>2
    <3>2. CASE ~ HasKey(args, "pois_float")
      <4>1. p \notin Named("pois_float")
        BY <3>2 DEF Named
      <4>2. \A i \in DOMAIN argv :
              argv[i].text = "pois_float" => ~ argv[i].dashed /\ i # 1
        <5> TAKE i \in DOMAIN argv
        <5>1. argv[i] \in Token
          BY <2>2
        <5> QED
          BY <2>3, <3>2, <5>1, TokenIs
      <4> QED
        BY <4>1, <4>2 DEF ValueIsWritten
    <3> QED
      BY <3>1, <3>2
  <2>6. Len(fits) = IF has("stat_only") THEN 2 ELSE 1
    BY <2>1, <2>3, <2>4 DEF IInv, LastFitHoldsNpsAsAsked
  <2>7. \A p \in POIs : fits[Len(fits)].start[p].const = (p \notin settings.pois_float)
    <3>1. fits \in Seq(Fits)
      BY DEF IInv, FreeFitTypeOK
    <3>2. Len(fits) \in DOMAIN fits
      BY <2>6, <3>1
    <3> QED
      BY <3>2 DEF IInv, FitHeld
  <2>8. (data = Observed) = ~ (has("prefit") \/ has("postfit"))
    <3>1. (data = Observed) = (Study = "OBSERVED")
      BY <2>1, <2>4 DEF DataAsAsked, WithData
    <3>2. (Study = "OBSERVED") = ~ (HasKey(args, "prefit") \/ HasKey(args, "postfit"))
      BY DEF Study
    <3> QED
      BY <2>3, <3>1, <3>2
  <2>9. has("prefit") => settings.prePostFit = "PREFIT"
    BY <2>3, <2>4 DEF Study
  <2>10. \A p \in POIs :
           fits[Len(fits)].start[p].const = ~ ValueIsWritten(argv, "pois_float", p)
    BY <2>4, <2>5, <2>7
  <2> HIDE DEF has
  <2> QED
    BY <2>6, <2>8, <2>9, <2>10 DEF FreeFitIsTheOneAskedFor, ValueIsWritten, has
<1> QED
  BY <1>1, ReadInvariance, ImplementsFreeFit, FreeFitInvariance, DataRight, PTL
=============================================================================
