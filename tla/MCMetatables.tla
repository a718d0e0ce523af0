---------------------------- MODULE MCMetatables ----------------------------
(* Instances of Metatables for TLC: gtk depends on gdk; its widgets have   *)
(* an interface and a field of atk, which is loaded when it is needed; an  *)
(* old module cannot be loaded, nor what depends on it.                    *)
EXTENDS Metatables, TLC

MCModule == {"gdk", "gtk", "atk", "ext", "old"}
MCDepends ==
  "gdk" :> <<>> @@ "gtk" :> <<"gdk">> @@ "atk" :> <<"gdk">> @@ "old" :> <<>>
  @@ "ext" :> <<"gtk", "old">>

MCClass == {"Widget", "Button", "Editable", "Accessible"}
MCTypeName == MCClass \cup {"int"}
MCNative ==
  "gdk" :> {"int", "Widget"} @@ "gtk" :> {"int", "Button", "Editable"}
  @@ "atk" :> {"int", "Accessible"} @@ "ext" :> {"int"} @@ "old" :> {}
MCForeign ==
  "gdk" :> {} @@ "gtk" :> {"Widget", "Accessible"} @@ "atk" :> {"Widget"}
  @@ "ext" :> {"Button"} @@ "old" :> {}
MCProvider ==
  [t \in MCTypeName |-> IF t = "Accessible" THEN "atk" ELSE NULL]

CONSTANTS show, text, role

MCAttr == {show, text, role}
\* "Other" stands for functions that are listed with those of the classes.
MCName == (MCClass \cup {"Other"}) \X MCAttr
MCFuncName ==
  [n \in MCClass \X MCAttr |-> IF n = <<"Editable", role>> THEN NULL ELSE n]
MCComplete == {<<"Editable", text>>}
MCListed ==
  "gdk" :> <<<<"Widget", show>>, <<"Other", show>>, <<"Other", text>>,
             <<"Other", role>>, <<"Widget", role>>>>
  @@ "gtk" :> <<<<"Button", show>>, <<"Editable", text>>, <<"Other", text>>>>
  @@ "atk" :> <<<<"Accessible", role>>, <<"Accessible", show>>>>
  @@ "ext" :> <<<<"Other", show>>>> @@ "old" :> <<<<"Other", role>>>>

\* Three bits that are not compared, in which many names agree: a chain of
\* four for gdk, and names that are not listed in buckets of others.
MCNumber(n) ==
  LET cs == <<"Widget", "Button", "Editable", "Accessible", "Other">>
      as == <<show, text, role>>
      c  == CHOOSE i \in 1..5 : cs[i] = n[1]
      a  == CHOOSE i \in 1..3 : as[i] = n[2]
  IN 3 * c + a
MCHashValue ==
  [n \in MCName |-> 8 * MCNumber(n) + (IF n[2] = text THEN 6 ELSE 1)]
MCAlias ==
  [n \in MCName |-> IF n = <<"Accessible", role>>
     THEN <<"Accessible", show>> ELSE n]
MCSymbols == MCName \ {<<"Widget", role>>}
MCOverrides == [m \in MCModule |-> IF m = "gtk" THEN {<<"Button", show>>}
                                                ELSE {}]

MCObject == {"w", "b"}
MCClassOf == "w" :> "Widget" @@ "b" :> "Button"
MCLineage ==
  [c \in MCClass |-> IF c = "Button" THEN <<"Button", "Widget">> ELSE <<c>>]
MCInterfaces ==
  [c \in MCClass |->
     IF c = "Button" THEN <<"Editable", "Accessible">> ELSE <<>>]
MCModuleOf == "Widget" :> "gdk" @@ "Button" :> "gtk" @@ "Editable" :> "gtk"
              @@ "Accessible" :> "atk"
MCField == {<<"Widget", text>>}
MCFieldType == <<"Widget", text>> :> "Accessible"
MCVirtual == {<<"Editable", text>>}

ASSUME Unhidden
=============================================================================
