----------------------------- MODULE ImageRefs -----------------------------
(***************************************************************************)
(* GL001: the images of a file whose tag can move (rules/gl001.go).  The   *)
(* variables of a reference are replaced by all the values the file gives  *)
(* them, and each reference they can make is judged.                       *)
(*                                                                         *)
(* A reference is the sequence of its parts: text, with "/", ":", "@" and  *)
(* "@sha256:" apart, and what GitLab or the job replaces.                  *)
(***************************************************************************)
EXTENDS RuleHelpers

CONSTANT MaxRefForms  \* maxRefForms

Piece(is, value) == [is |-> is, value |-> value]
Text(t) == Piece("text", t)
Literal(ref) == \A i \in DOMAIN ref : ref[i].is = "text"

(* imageVarRe, imageVarName: an input that goes through a function and a   *)
(* Moa expression are no variables of the reference.                       *)
Replaced == {"input", "job input", "variable"}

OneOfEach(s) == FoldLeft(LAMBDA some, x : IF x \in Range(some) THEN some ELSE Append(some, x), <<>>, s)
VariablesOf(ref) == OneOfEach(SelectSeq(ref, LAMBDA part : part.is \in Replaced))
KnownValues(values) == OneOfEach(SelectSeq(values, LAMBDA v : v # <<>> /\ Literal(v)))

Replace(form, part, v) == FlattenSeq([i \in DOMAIN form |-> IF form[i] = part THEN v ELSE <<form[i]>>])
ReplaceInAll(forms, part, values) ==
  FlattenSeq([i \in DOMAIN forms |-> [j \in DOMAIN values |-> Replace(forms[i], part, values[j])]])

(* expandRef: every combination; a variable without values stays in place, *)
(* and so does a further one that would make too many forms.               *)
ExpandOne(forms, part, values) ==
  IF values = <<>> \/ (Len(forms) > 1 /\ Len(forms) * Len(values) > MaxRefForms) THEN forms
  ELSE ReplaceInAll(forms, part, values)
ExpandRef(ref, valuesOf) ==
  FoldLeft(LAMBDA forms, part : ExpandOne(forms, part, KnownValues(valuesOf[part])), <<ref>>, VariablesOf(ref))

-----------------------------------------------------------------------------
(* The reference itself.                                                   *)
Positions(s, text) == { i \in DOMAIN s : s[i] = Text(text) }
LastPathSegment(ref) ==
  LET slashes == Positions(ref, "/") IN IF slashes = {} THEN ref ELSE SubSeq(ref, Max(slashes) + 1, Len(ref))

(* imageTag: <<>> when there is none.                                      *)
TagIn(segment) ==
  LET colons == Positions(segment, ":") IN IF colons = {} THEN <<>> ELSE SubSeq(segment, Min(colons) + 1, Len(segment))
ImageTag(ref) == IF Positions(ref, "@") # {} THEN <<>> ELSE TagIn(LastPathSegment(ref))

MutableTags == { <<Text(t)>> : t \in {"latest", "stable"} }
Versions == {"22", "22-alpine", "3"}  \* text with a digit
IsVersionlessTag(tag) == Literal(tag) /\ \A i \in DOMAIN tag : tag[i].value \notin Versions

IsVarRef(ref) == Len(ref) = 1 /\ ref[1].is = "variable"
MacOSImage == <<Text("macos-14-xcode-15")>>

(* What may come from a variable: the digest, or the tag.                  *)
TagUnknown(ref) ==
  \/ Positions(ref, "@") # {} /\ ~Literal(SubSeq(ref, Min(Positions(ref, "@")), Len(ref)))
  \/ ~Literal(LastPathSegment(ref))

(* checkRef.                                                               *)
Judge(ref, tag, digests) ==
  CASE Positions(ref, "@sha256:") # {} \/ ref = MacOSImage \/ IsVarRef(ref) -> "fine"
    [] \E i \in DOMAIN ref : ref[i].is \in {"moa", "job input"} -> "fine"
    [] tag = <<>> -> IF TagUnknown(ref) THEN "fine" ELSE "no tag"
    [] digests /\ Literal(ref) -> "no digest"
    [] tag \in MutableTags -> "mutable tag"
    [] IsVersionlessTag(tag) -> "no version"
    [] OTHER -> "fine"
CheckRef(ref, digests) == Judge(ref, ImageTag(ref), digests)

(* checkRefResolved: what expands is not asked for a digest.               *)
JudgedForms(ref, forms, digests) ==
  IF forms = <<ref>> THEN { [image |-> ref, says |-> CheckRef(ref, digests)] }
  ELSE { [image |-> form, says |-> CheckRef(form, FALSE)] : form \in Range(forms) }
CheckRefResolved(ref, valuesOf, digests) ==
  { verdict \in JudgedForms(ref, ExpandRef(ref, valuesOf), digests) : verdict.says # "fine" }

-----------------------------------------------------------------------------
(* Where images are: image: and services:, each a name or a mapping.       *)
ImageRef(node) ==
  CASE node.is = "scalar" -> node.value
    [] FindKey(node, "name").is = "scalar" -> FindKey(node, "name").value
    [] OTHER -> <<>>
ItemsIn(list) == IF IsList(list) THEN Range(list.items) ELSE {}
ImagesOf(container) ==
  { ImageRef(node) : node \in {FindKey(container, "image")} \union ItemsIn(FindKey(container, "services")) } \ {<<>>}

(* What a variable of a reference can be.                                  *)
InputValues(inputs, name) ==
  LET def == FindKey(inputs, name)
      options == FindKey(def, "options")
      default == FindKey(def, "default")
  IN  CASE IsList(options) -> [i \in DOMAIN options.items |-> options.items[i].value]
        [] default.is = "scalar" -> <<default.value>>
        [] OTHER -> <<>>

(* ruleVarValues, of every entry, also of one with when: never.            *)
RuleVarValues(container, name) ==
  FlattenSeq([i \in DOMAIN Rules(container) |-> VarValues(FindKey(Rules(container)[i], "variables"), name)])

(* resolveGlobal.                                                          *)
GlobalValues(file, part) ==
  IF part.is = "input" THEN InputValues(FindKey(FindKey(file, "spec"), "inputs"), part.value)
  ELSE RuleVarValues(FindKey(file, "workflow"), part.value) \o VarValues(FindKey(file, "variables"), part.value)

(* matrixValues.                                                           *)
EntryItem(item) == IF item.is = "scalar" THEN <<item.value>> ELSE <<>>
EntryValues(v) ==
  CASE v.is = "scalar" -> <<v.value>>
    [] v.is = "list" -> FlattenSeq([i \in DOMAIN v.items |-> EntryItem(v.items[i])])
    [] OTHER -> <<>>
MatrixOf(job) ==
  LET matrix == FindKey(FindKey(job, "parallel"), "matrix") IN IF IsList(matrix) THEN matrix.items ELSE <<>>
MatrixValues(entries, name) ==
  [values |-> FlattenSeq([i \in DOMAIN entries |-> EntryValues(FindKey(entries[i], name))]),
   complete |-> \A i \in DOMAIN entries : FindKey(entries[i], name) # Nil]

(* jobVarResolver.                                                         *)
OwnElse(own, far) == IF own # <<>> THEN own ELSE far
JobVarValues(file, name, part) ==
  LET job == file.at[name]
      useGlobal == name \notin Hidden /\ FindKey(job, "extends") = Nil /\ Inherits(file, name, "variables", part.value)
      fallback == RuleVarValues(job, part.value)
                  \o OwnElse(VarValues(FindKey(job, "variables"), part.value),
                             IF useGlobal THEN GlobalValues(file, part) ELSE <<>>)
      matrix == MatrixValues(MatrixOf(job), part.value)
  IN  CASE matrix.values = <<>> -> fallback
        [] matrix.complete -> matrix.values
        [] OTHER -> matrix.values \o fallback

ValuesInJob(file, name, part) ==
  CASE part.is = "job input" -> InputValues(FindKey(file.at[name], "inputs"), part.value)
    [] part.is = "input" -> GlobalValues(file, part)
    [] OTHER -> JobVarValues(file, name, part)

(* The pipeline's own images, then those of the jobs.                      *)
GL001(file, digests) ==
  LET global(ref) == [part \in Range(VariablesOf(ref)) |-> GlobalValues(file, part)]
      inJob(job, ref) == [part \in Range(VariablesOf(ref)) |-> ValuesInJob(file, job, part)]
      of(job, verdicts) == { Finding("GL001", job, v) : v \in verdicts }
  IN  UNION { of("", CheckRefResolved(ref, global(ref), digests)) :
                ref \in ImagesOf(file) \union ImagesOf(FindKey(file, "default")) }
      \union UNION { UNION { of(job, CheckRefResolved(ref, inJob(job, ref), digests)) : ref \in ImagesOf(file.at[job]) } :
                       job \in Jobs(file) }
=============================================================================
