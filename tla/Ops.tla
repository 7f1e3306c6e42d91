-------------------------------- MODULE Ops --------------------------------
(***************************************************************************)
(* The host-side pass over a command buffer (runtimes/js/src/ops.ts): each *)
(* raw op is checked against the format's vocabularies and its value goes  *)
(* through the sink its prop declares, or it is refused with a diagnostic. *)
(*                                                                         *)
(* An op is [op, by, prop, value], by the kind of its target ("id",        *)
(* "path", "selector"), prop "" when it names none.                        *)
(***************************************************************************)
EXTENDS Markup

\* parseNodeRef decides by; a format without html has no selectors and no class ops.
Unsupported(op, profile) ==
    ~ SpeaksHtml(profile) /\ (op.op \in {"addClass", "removeClass"} \/ op.by = "selector")

\* The sinks the declared nodes in scope give a prop.
DeclaredSinks(profile, prop) ==
    UNION {{profile.scope[i].nodes[n].props[prop].sink :
              n \in {m \in DOMAIN profile.scope[i].nodes : prop \in DOMAIN profile.scope[i].nodes[m].props}} : i \in 1..Len(profile.scope)}

DeclaredByScope(profile, prop) == DeclaredSinks(profile, prop) # {}

LandsOnHtmlAttribute(profile, prop) ==
    SpeaksOnlyHtml(profile) \/ (SpeaksHtml(profile) /\ ~ DeclaredByScope(profile, prop))

HtmlSinkFor(prop) ==
    CASE prop = "href" -> "uri" [] prop = "src" -> "image-uri" [] prop = "style" -> "css" [] OTHER -> "text"

\* checkPropName: the code an op that only names a prop is refused with, or "".
CheckPropName(profile, prop) ==
    CASE SpeaksOnlyHtml(profile) -> IF IsAllowedAttribute(LowerOf(prop)) THEN "" ELSE "unsafe-prop"
      [] DeclaredByScope(profile, prop) \/ (SpeaksHtml(profile) /\ IsAllowedAttribute(LowerOf(prop))) -> ""
      [] OTHER -> "op-unknown-prop"

Accepted(value) == [ok |-> TRUE, value |-> value, code |-> ""]
Rejected(code) == [ok |-> FALSE, value |-> StrVal(Refused), code |-> code]
UnlessRefused(cleaned) == IF cleaned.t = "refused" THEN Rejected("unsafe-prop") ELSE Accepted(cleaned)
ThroughSink(sink, value, profile) == UnlessRefused(ApplySink(sink, value, profile.schemes))

\* Mutant: of several sinks, some one is taken.
GuessesSink(profile, prop, value) ==
    IF CheckPropName(profile, prop) # "" THEN Rejected(CheckPropName(profile, prop))
    ELSE IF LandsOnHtmlAttribute(profile, prop) THEN ThroughSink(HtmlSinkFor(LowerOf(prop)), value, profile)
    ELSE ThroughSink(CHOOSE s \in DeclaredSinks(profile, prop) : TRUE, value, profile)

\* routeOpValue: an op names no node, so the sinks of every declaring node count; two
\* different ones that are not text refuse it.
RouteOpValue(profile, prop, value) ==
    LET attribute == LandsOnHtmlAttribute(profile, prop)
        dangerous == DeclaredSinks(profile, prop) \ {"text"}
        sink == CASE attribute -> HtmlSinkFor(LowerOf(prop)) [] dangerous = {} -> "text" [] OTHER -> CHOOSE s \in dangerous : TRUE
    IN  CASE CheckPropName(profile, prop) # "" -> Rejected(CheckPropName(profile, prop))
          [] ~ attribute /\ Cardinality(dangerous) > 1 -> Rejected("prop-sink-conflict")
          [] OTHER -> ThroughSink(sink, value, profile)

\* sanitizeOpChildren: markup as tokens, a list of markup strings, or a node list.
\* A children value is [shape, markup, nodes] with shape "string", "strings", "nodes" or "other".
SanitizeOpChildren(children, profile) ==
    LET markupProfile == IF profile.builtin THEN BuiltinProfiles["text/html"] ELSE profile
        Clean(tokens) == TreeToHtml(SanitizeTree(HtmlToTree(tokens, markupProfile), markupProfile, FALSE, FALSE).tree)
    IN  CASE children.shape = "nodes" -> [children EXCEPT !.nodes = SanitizeTree(@, profile, FALSE, FALSE).tree]
          [] SpeaksHtml(profile) -> [children EXCEPT !.markup = [i \in 1..Len(@) |-> Clean(@[i])]]
          [] OTHER -> children

\* finalizeOps, one op: what the host receives, or the code it is refused with.
Emits(op) == [ok |-> TRUE, op |-> op, code |-> ""]
Refuses(op, code) == [ok |-> FALSE, op |-> op, code |-> code]
FinalizeRouted(op, profile, routed) ==
    LET isAttribute == op.op # "setProp" \/ LandsOnHtmlAttribute(profile, op.prop)
        removes == op.op = "removeAttr" \/ (isAttribute /\ op.value \in {[t |-> "bool", v |-> "false"], [t |-> "null", v |-> "null"]})
    IN  CASE Unsupported(op, profile) ->
                Refuses(op, IF op.op \in {"addClass", "removeClass"} THEN "unsupported-op" ELSE "unsupported-target")
          [] op.op = "toggle" -> Emits([op EXCEPT !.value = [t |-> "bool", v |-> IF @ = [t |-> "bool", v |-> "true"] THEN "true" ELSE "false"]])
          [] op.op \in {"setText", "addClass", "removeClass"} -> Emits([op EXCEPT !.value = StrVal(IF @.t = "null" THEN "" ELSE @.v)])
          [] op.op = "replaceChildren" ->
                IF op.children.shape = "other" THEN Refuses(op, "op-invalid-value")
                ELSE Emits([op EXCEPT !.children = SanitizeOpChildren(@, profile)])
          [] op.prop = "" -> Refuses(op, "op-unknown-prop")
          [] removes -> IF CheckPropName(profile, op.prop) # "" THEN Refuses(op, CheckPropName(profile, op.prop))
                        ELSE Emits([op EXCEPT !.op = "removeAttr"])
          [] isAttribute /\ op.value.t \in {"arr", "obj"} -> Refuses(op, "op-invalid-value")
          [] routed.ok -> Emits([op EXCEPT !.value = routed.value])
          [] OTHER -> Refuses(op, routed.code)
FinalizeOp(op, profile) == FinalizeRouted(op, profile, RouteOpValue(profile, op.prop, op.value))

-----------------------------------------------------------------------------
(***************************************************************************)
(* What an op carries to the host fits wherever it may land: an op names   *)
(* no node, so its value has been through the sink of every node that      *)
(* declares the prop, and of the html attribute where it may be one; node  *)
(* lists and markup are sanitized (finalizeOps, routeOpValue), except for  *)
(* what one pass leaves in a style that is not settled.                    *)
(***************************************************************************)
SettledOp(op) ==
    /\ SettledTexts({op.value.v} \cup TreeTexts(op.children.nodes) \cup UNION {TokenTexts(tokens) : tokens \in Range(op.children.markup)})
    /\ \A i \in DOMAIN op.children.markup : SettledBlocks(op.children.markup[i])
OpFitsEverySink(op, profile) ==
    SettledOp(op) =>
    LET sinks == DeclaredSinks(profile, op.prop)
                 \cup (IF LandsOnHtmlAttribute(profile, op.prop) THEN {HtmlSinkFor(LowerOf(op.prop))} ELSE {})
    IN  \A r \in {FinalizeOp(op, profile)} :
        r.ok => /\ r.op.op \in {"setAttr", "setProp"} => \A s \in sinks : ApplySink(s, r.op.value, profile.schemes) = r.op.value
                /\ r.op.op = "replaceChildren" => SanitizeOpChildren(r.op.children, profile) = r.op.children

=============================================================================
