----------------------------- MODULE MC_registry -----------------------------
(***************************************************************************)
(* Values for the constants of Registry.                                   *)
(***************************************************************************)
EXTENDS Registry, TLC

CONSTANTS alice, bob, dev, handle1, label1, flat1,
          canister1, canister2, tag1, note1, module1, module2

Name1 == <<handle1, label1>>

\* What an older version may have left in stable memory: alice owns the
\* handle and a name with a tag; before schema 4 she may have written
\* herself that dev announced it.
AliceOwns(deployer) ==
  [h \in Handles |-> [owner |-> alice, deployer |-> deployer]]

Tagged(text) == [text EXCEPT !["tags"] = {tag1}]

Claimed(text) == [text EXCEPT !["deployer"] = dev, !["hash"] = module2]

OneName(text) ==
  [n \in Names |->
     IF n = Name1 THEN [NewRecord(alice, canister1) EXCEPT !.text = text] ELSE None]

Memory(version, config, text) ==
  [schema |-> version, market |-> config, handles |-> AliceOwns(None),
   deployers |-> {dev}, records |-> OneName(text)]

OldMemories ==
  {Memory(1, "unset", Tagged(Blank)), Memory(1, "unset", Claimed(Tagged(Blank))),
   Memory(2, "unset", Claimed(Tagged(Blank))), Memory(2, "v2", Tagged(Blank)),
   Memory(3, "open", Claimed(Blank))}
=============================================================================
