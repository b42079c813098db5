--------------------------- MODULE MCRunAdmission ---------------------------
(* An arm and a lift, a bench and a cell made of them, in every arrangement. *)
EXTENDS RunAdmission

AllTargets ==
    {<<"leaf", n, "g">> : n \in {"arm", "lift"}}
        \cup {<<"domain", "hall">>, <<"domain", "table">>, <<"resource", "bus">>}
AllRequests == SUBSET Targets

Robot(limit, lock) ==
    [kind |-> "physical", revision |-> 1, exposed |-> TRUE, locks |-> lock,
     groups |-> [g |-> [axes |-> <<[lower |-> 0, upper |-> limit, velocity |-> 2]>>,
                        schemas |-> {"position", "normalized", "torque"}]],
     watchdog |-> [crash_safe |-> TRUE, unattended |-> FALSE]]

View(children, lock) ==
    [kind |-> "composite", revision |-> 1, exposed |-> TRUE, locks |-> lock,
     children |-> children]

\* One child, or two of which the second may be an alias.
Arrangements(nodes) ==
    LET a == {[role |-> "a", node |-> n, alias |-> FALSE] : n \in nodes}
        b == {[role |-> "b", node |-> n, alias |-> x] : n \in nodes, x \in BOOLEAN}
    IN  {<<x>> : x \in a} \cup {<<x, y>> : x \in a, y \in b}

Plants(limits, tables) ==
    [server : {"s"},
     nodes : [cell : {View(c, {<<"domain", "hall">>}) :
                         c \in Arrangements({"cell", "bench", "arm", "lift"})},
              bench : {View(b, table) :
                         b \in Arrangements({"cell", "arm", "lift", "ghost"}), table \in tables},
              arm : {Robot(limit, {}) : limit \in limits},
              lift : {Robot(2, {<<"resource", "bus">>})}],
     identities : {[op |-> {<<"cell">>, <<"bench", "*">>, <<"lift", "g">>}]}]

AllRegistries == Plants({1, 2}, {{}, {<<"domain", "table">>}})
NewRegistries == Plants({2}, {{<<"domain", "table">>}})

\* The arm gets a tighter limit, the cell another first child, the hall is split.
Edits(reg) ==
    {reg,
     [reg EXCEPT !.nodes["arm"] = Robot(1, {})],
     [reg EXCEPT !.nodes["cell"].children[1].node = "lift"],
     [reg EXCEPT !.nodes["bench"].locks = {}]}

Move(path, top) ==
    [path |-> path, schema |-> "position", reference |-> "absolute",
     samples |-> <<[t |-> 0, values |-> <<0>>], [t |-> 2, values |-> <<top>>]>>]

Shift(path) ==
    [path |-> path, schema |-> "position", reference |-> "relative",
     samples |-> <<[t |-> 0, values |-> <<0>>], [t |-> 1, values |-> <<-1>>]>>]

Phase(id, sequences) == [id |-> id, sequences |-> sequences]

\* A robot two levels down, two robots at once, two phases, a robot by itself, and a
\* schema that a robot has and the compiler has not.
AllTemplates ==
    {[root |-> "cell", phases |-> <<Phase("p", <<Move(<<"a", "a", "g">>, 2)>>)>>],
     [root |-> "cell", phases |-> <<Phase("p", <<Move(<<"a", "g">>, 1), Shift(<<"b", "g">>)>>)>>],
     [root |-> "bench", phases |-> <<Phase("p", <<Move(<<"b", "g">>, 2)>>),
                                     Phase("q", <<Shift(<<"b", "g">>)>>)>>],
     [root |-> "lift",
      phases |-> <<Phase("p", <<[Shift(<<"g">>) EXCEPT !.schema = "normalized"]>>)>>],
     [root |-> "lift",
      phases |-> <<Phase("p", <<[Shift(<<"g">>) EXCEPT !.schema = "torque"]>>)>>]}

\* Another robot, a higher position, or a shorter phase.
Rewrites(program) ==
    {[program EXCEPT !.phases[1].sequences[1].target = <<"lift", "g">>],
     [program EXCEPT !.phases[1].sequences[1].samples[2].values[1] = 3],
     [program EXCEPT !.phases[1].duration = 1]} \ {program}
=============================================================================
