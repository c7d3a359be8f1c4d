---------------------------- MODULE MCExtensions ----------------------------
(* The extensions that ship with the program, and catalogs as edited or      *)
(* truncated by people.                                                      *)
EXTENDS Extensions

Tool(t) == [id |-> t, on |-> TRUE]
Ext(x, tools) == [id |-> x, enabled |-> TRUE, readable |-> TRUE, refused |-> FALSE, tools |-> tools]

Lobster == Ext("lobster", <<Tool("lobster")>>)
Ops == Ext("ops", <<Tool("weather"), Tool("email")>>)

MCCatalogs ==
    {<<>>, <<Ext("deepseek", <<>>), Lobster, Ops>>,
     \* The lobster executable is missing; a manifest cannot be read; a tool is off.
     <<[Lobster EXCEPT !.refused = TRUE], [Ops EXCEPT !.tools[1].on = FALSE]>>,
     <<[Lobster EXCEPT !.readable = FALSE], [Ops EXCEPT !.enabled = FALSE]>>,
     \* A tool that nobody can run, first or last; a tool that another extension has.
     <<[Ops EXCEPT !.tools = Append(@, Tool("extra"))]>>,
     <<Ext("lobster", <<Tool("lobster"), Tool("email")>>), Ops>>,
     \* An extension without an adapter.
     <<Ext("deepseek", <<Tool("extra")>>), Ops>>}

MCResolved == ({"lobster"} \X {"lobster", "email", "extra"}) \cup ({"ops"} \X {"weather", "email"})

MCSkillSets == {<<{}, {}>>, <<{"skill"}, {"pdf"}>>, <<{"pdf"}, {"skill"}>>}

ASSUME ToolsDiffer == DifferentTools
=============================================================================
