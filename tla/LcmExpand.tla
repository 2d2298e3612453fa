----------------------------- MODULE LcmExpand ------------------------------
(* lcm_expand over the store (src/context/lcm/tools.rs): a walk from a     *)
(* summary down `depth` levels, and on to the stored messages when the     *)
(* caller asks to include them, under a cap on tokens.                     *)
EXTENDS LcmStore, SequencesExt

CONSTANTS Depths, Caps    \* the levels and the caps lcm_expand is called with

\* execute() raises a depth of zero to one.
ASSUME LcmExpandAssumption == Depths \subseteq Nat \ {0} /\ Caps \subseteq Nat

Text == 1    \* tokens of a summary or of a stored message
Heading == 1 \* of the line above it, which the cap sees but does not count
Whole == 2   \* of an externalized payload

(* Under way: the frontier, every summary that was ever on it, the rows of *)
(* the leaf just shown that are not yet read; what the reply shows.        *)
NewWalk(root) ==
    [frontier |-> <<[id |-> root, level |-> 0]>>, seen |-> {root}, rows |-> {},
     summaries |-> {}, messages |-> {}, payloads |-> {}, used |-> 0, cut |-> FALSE]

Truncated(w) == [w EXCEPT !.cut = TRUE]

(* append_payload: what does not fit is cut, what is missing is said so.   *)
AppendPayload(w, cap, p) ==
    IF p = Nothing \/ payload[p] = "absent" THEN w
    ELSE IF w.used + Whole <= cap
    THEN [w EXCEPT !.payloads = @ \cup {p}, !.used = @ + Whole]
    ELSE Truncated(w)

AppendMessage(w, cap) ==
    LET m == CHOOSE r \in w.rows : \A q \in w.rows : r[2] <= q[2]
        shown == [w EXCEPT !.rows = @ \ {m}, !.messages = @ \cup {m}, !.used = @ + Text]
    IN  IF w.used + Text + Heading > cap THEN Truncated(w)
        ELSE AppendPayload(shown, cap, conv[m[1]].messages[m[2]].file)

\* Mutant: one level too deep.
BottomLate(node, depth) == node.level > depth
Bottom(node, depth) == node.level >= depth

(* The node last pushed on the frontier.  Its children come in the order   *)
(* of their hashes, which is any.                                          *)
Visit(w, depth, cap, include_messages) ==
    LET node == Last(w.frontier)
        s == dag[node.id]
        children == s.sources \ w.seen
        below == {[id |-> k, level |-> node.level + 1] : k \in children}
        shown == [w EXCEPT !.frontier = Front(@), !.summaries = @ \cup {node.id},
                           !.used = @ + Text]
    IN  IF w.used + Text + Heading > cap THEN Truncated(w)
        ELSE IF Bottom(node, depth) \/ (s.depth = 0 /\ ~include_messages) THEN shown
        ELSE IF s.depth = 0 THEN [shown EXCEPT !.rows = {s.session} \X s.sources]
        ELSE [shown EXCEPT !.seen = @ \cup children, !.frontier = @ \o SetToSeq(below)]

Finished(w) == w.cut \/ (w.rows = {} /\ w.frontier = <<>>)

Advance(w, depth, cap, include_messages) ==
    IF Finished(w) THEN w
    ELSE IF w.rows # {} THEN AppendMessage(w, cap)
    ELSE Visit(w, depth, cap, include_messages)

(* All that is shown has a token at least, so the cap bounds the walk.     *)
Expand(root, depth, cap, include_messages) ==
    LET walk[n \in 0..(cap + 1)] ==
            IF n = 0 THEN NewWalk(root)
            ELSE Advance(walk[n - 1], depth, cap, include_messages)
    IN  walk[cap + 1]

-----------------------------------------------------------------------------
(* Properties *)

(* From a summary, down its sources level by level. *)
WithSources(S) == S \cup UNION {dag[k].sources : k \in {j \in S : dag[j].depth > 0}}

Within(s, levels) ==
    LET reached[n \in 0..levels] == IF n = 0 THEN {s} ELSE WithSources(reached[n - 1])
    IN  reached[levels]

(* An expansion that is not marked as truncated shows exactly what lies    *)
(* within the levels asked for; a truncated one shows nothing else, and    *)
(* what it shows is within the cap.                                        *)
ExpandTells ==
    \A s \in DOMAIN dag, depth \in Depths, cap \in Caps, include_messages \in BOOLEAN :
        LET out == Expand(s, depth, cap, include_messages)
            opened == {k \in Within(s, depth - 1) : include_messages /\ dag[k].depth = 0}
            stored == UNION {{dag[k].session} \X dag[k].sources : k \in opened}
            files == {conv[m[1]].messages[m[2]].file : m \in stored} \ {Nothing}
        IN  /\ out.summaries \subseteq Within(s, depth)
            /\ out.messages \subseteq stored
            /\ out.payloads \subseteq files
            /\ \/ out.cut
               \/ /\ out.summaries = Within(s, depth)
                  /\ out.messages = stored
                  /\ out.payloads = files
            /\ out.used <= cap
=============================================================================
