------------------------------ MODULE Wildcard ------------------------------
(* logger.wildcardNode: which pattern of the logger's configuration decides    *)
(* the level of a namespace. A namespace is the sequence of its parts, and so  *)
(* is a pattern, in which "*" stands for one part and "**" for any number.     *)
(* Every pattern has a level of its own, so that the pattern stands for it.    *)
EXTENDS Naturals, Sequences, SequencesExt

CONSTANT Unknown  \* LevelUnknown, the level of a node on the way to a pattern

\* add: the nodes of the tree are the prefixes of the patterns, a node is known
\* by the path to it, and its name is the last part of the path.
TrieNodes(config) == UNION {Prefixes(pattern) : pattern \in config} \union {<<>>}
level(config, node) == IF node = <<>> \/ node \in config THEN node ELSE Unknown

\* The level of the first child in order whose subtree has one.
RECURSIVE levelForNamespace(_, _, _)

Below(config, node, name, names) ==
  IF Append(node, name) \in TrieNodes(config)
  THEN levelForNamespace(config, Append(node, name), names) ELSE Unknown

RECURSIVE FirstOf(_)
FirstOf(results) ==
  IF results = <<>> THEN Unknown
  ELSE IF Head(results) # Unknown THEN Head(results) ELSE FirstOf(Tail(results))

AtEnd_Strict(config, node) == level(config, node)

\* No part is left: the level of the node, or that of a "**" below it.
AtEnd(config, node) ==
  IF level(config, node) = Unknown /\ Append(node, "**") \in TrieNodes(config)
  THEN level(config, Append(node, "**")) ELSE level(config, node)

\* Behind "**" any number of parts may be skipped before a part that is named;
\* at the end of a pattern it takes them all.
Skip(config, node, names) ==
  IF node # <<>> /\ Last(node) = "**"
  THEN [i \in 1..Len(names) |-> Below(config, node, names[i], SubSeq(names, i + 1, Len(names)))]
       \o <<level(config, node)>>
  ELSE <<>>

\* What levelForNamespace tries, in this order.
Attempts(config, node, names) ==
  <<Below(config, node, Head(names), Tail(names))>>
  \o Skip(config, node, names)
  \o <<Below(config, node, "*", Tail(names)), Below(config, node, "**", names)>>

levelForNamespace(config, node, names) ==
  IF names = <<>> THEN AtEnd(config, node) ELSE FirstOf(Attempts(config, node, names))

\* The root's level, here its path, when no pattern decides.
LevelForNamespace(config, names) ==
  IF names = <<>> THEN <<>>
  ELSE FirstOf(<<levelForNamespace(config, <<>>, names), <<>>>>)

-----------------------------------------------------------------------------
(* What a pattern means.                                                      *)
RECURSIVE Matches(_, _)
Matches(pattern, names) ==
  CASE pattern = <<>> -> names = <<>>
    [] pattern # <<>> /\ Head(pattern) = "**" ->
         \E i \in 0..Len(names) : Matches(Tail(pattern), SubSeq(names, i + 1, Len(names)))
    [] OTHER -> /\ names # <<>> /\ Head(pattern) \in {"*", Head(names)}
                /\ Matches(Tail(pattern), Tail(names))

\* "*" directly behind "**" is only found where "**" stands for nothing.
Supported(pattern) ==
  \A i \in 1..Len(pattern) - 1 : pattern[i] = "**" => pattern[i + 1] \notin {"*", "**"}

(* Only a pattern that matches decides.                                       *)
DecidesIfMatches(config, names) ==
  LevelForNamespace(config, names) \in {<<>>} \union {p \in config : Matches(p, names)}

(* If a pattern matches, some pattern decides; the empty namespace always has  *)
(* the level of the root.                                                      *)
MatchIsFound(config, names) ==
  (names # <<>> /\ \E p \in config \ {<<>>} : Supported(p) /\ Matches(p, names)) => LevelForNamespace(config, names) # <<>>

(* The namespace itself goes before every wildcard.                           *)
ExactGoesFirst(config, names) ==
  names \in config => LevelForNamespace(config, names) = names

(* levelForNamespace agrees with the definition of matching.                  *)
LookupMatches(config, names) ==
  DecidesIfMatches(config, names) /\ MatchIsFound(config, names) /\ ExactGoesFirst(config, names)
=============================================================================
