----------------------------- MODULE CommandLine -----------------------------
(***************************************************************************)
(* CommandLineArgs: the words of a command line, taken apart into keys and *)
(* their values, and the check that every key that was used is one that    *)
(* the program has asked for.                                              *)
(*                                                                         *)
(* A word is its text without two leading dashes, and whether it had them. *)
(***************************************************************************)
EXTENDS Naturals, Sequences, FiniteSets

Token == [text : STRING, dashed : BOOLEAN]

Key(text) == [text |-> text, dashed |-> TRUE]
Word(text) == [text |-> text, dashed |-> FALSE]

\* What the object holds after ParseInput: ops, the values of each key; keys;
\* and _parsed_keys.
NoArguments == [ops |-> << >>, keys |-> {}, parsed |-> {}]

WithValues(ops, key, vals) ==
  [k \in DOMAIN ops \cup {key} |-> IF k = key THEN vals ELSE ops[k]]

\* The loop: the key at hand, its values so far, and what is complete.
Begin(tokens) == [key |-> tokens[1].text, vals |-> <<>>, args |-> NoArguments]

\* Mutant: the values of a key that is repeated add up.
RegisterAddsUp(args, key, vals) ==
  [args EXCEPT
     !.ops = WithValues(@, key, IF key \in DOMAIN @ THEN @[key] \o vals ELSE vals),
     !.keys = @ \cup {key}]

\* Mutant: keys is left to AddKey, which the first word does not see.
RegisterValsOnly(args, key, vals) == [args EXCEPT !.ops = WithValues(@, key, vals)]

\* A key takes the place of an earlier one of the same name, with its values.
Register(args, key, vals) ==
  [args EXCEPT !.ops = WithValues(@, key, vals), !.keys = @ \cup {key}]

AddKey(args, key) ==
  [args EXCEPT !.keys = @ \cup {key}, !.parsed = @ \cup {key}]

\* The first word is a key too, with or without dashes; without them only
\* keys, not _parsed_keys, has it.
Step(at, token) ==
  IF token.dashed
  THEN [key |-> token.text, vals |-> <<>>,
        args |-> AddKey(Register(at.args, at.key, at.vals), token.text)]
  ELSE [at EXCEPT !.vals = Append(@, token.text)]

ParseInput(tokens) ==
  IF tokens = <<>> THEN NoArguments
  ELSE LET at[n \in 0 .. Len(tokens)] ==
             IF n = 0 THEN Begin(tokens) ELSE Step(at[n - 1], tokens[n])
           end == at[Len(tokens)]
       IN Register(AddKey(end.args, end.key), end.key, end.vals)

HasKey(args, key) == key \in args.keys

\* GetVals and GetVal, where there is the key.
GetVals(args, key) == args.ops[key]
GetVal(args, key) == IF args.ops[key] = <<>> THEN "" ELSE args.ops[key][1]

UnknownKeys(args, requested) == args.parsed \ requested

-----------------------------------------------------------------------------
\* What the options of a command line say, read off its words: a key that is
\* written has the words between its last occurrence and the next key, it is
\* checked, and nothing that is not written is checked.
SaysWhatIsWritten(tokens, args) ==
  LET written == {i \in DOMAIN tokens : tokens[i].dashed}
      last(key) == CHOOSE i \in written :
                     /\ tokens[i].text = key
                     /\ \A j \in written : tokens[j].text = key => j =< i
      past(i) == CHOOSE n \in i + 1 .. Len(tokens) + 1 :
                   /\ n = Len(tokens) + 1 \/ n \in written
                   /\ \A j \in i + 1 .. n - 1 : j \notin written
  IN written # {} =>
       /\ args.parsed = {tokens[i].text : i \in written}
       /\ args.parsed \subseteq args.keys
       /\ \A key \in args.parsed :
            LET i == last(key)
                n == past(i) - i - 1
            IN args.ops[key] = [j \in 1 .. n |-> tokens[i + j].text]
=============================================================================
