----------------------------- MODULE EncodingResolution ---------------------------
(* Which encoding a file's text is decoded with: the reader's strategy and the   *)
(* two declarations a file can make, a label (subtype 20) and a codepage         *)
(* (subtype 3).  Encodings are model values; what a declaration names is given   *)
(* by two functions, so that two spellings can name the same encoding.           *)
EXTENDS Sequences

CONSTANTS
  Encodings,        \* the encodings the library can apply
  LabelEncoding,    \* resolve_label: what a label names, or NoEncoding, or Blank
  CodeEncoding,     \* resolve_codepage: what a code names, or NoEncoding, or Blank
  NoEncoding,       \* names an encoding the library cannot provide
  Blank             \* says nothing: an empty label, a code that carries no information

ASSUME EncodingsAssumption == NoEncoding \notin Encodings /\ Blank \notin Encodings

Absent == "absent"   \* Option::None: nothing declared, or no fallback given

(* EncodingStrategy: an override, or the fallbacks for a file that declares no    *)
(* encoding and for one that declares an encoding that cannot be provided.        *)
Override(encoding) == [override |-> encoding, unspecified |-> Absent, unrecognized |-> Absent]
HonourDeclared(unspecified, unrecognized) ==
  [override |-> Absent, unspecified |-> unspecified, unrecognized |-> unrecognized]

Resolved(provenance, encoding, warnings) ==
  [provenance |-> provenance, encoding |-> encoding, warnings |-> warnings]
Failed(error) == [provenance |-> error, encoding |-> NoEncoding, warnings |-> << >>]
Failures == {"EncodingUnspecified", "EncodingUnrecognized"}

NamedByLabel(label) == IF label = Absent THEN Blank ELSE LabelEncoding[label]
NamedByCode(code)   == IF code = Absent THEN Blank ELSE CodeEncoding[code]

(* The warning for two declarations that name different encodings. *)
MismatchWarnings(byLabel, byCode) ==
  IF byCode \in Encodings /\ byCode # byLabel
  THEN <<[warning |-> "EncodingDeclarationMismatch"]>> ELSE << >>

UnrecognizedWarnings(named) ==
  IF named = NoEncoding
  THEN <<[warning |-> "EncodingDeclarationUnrecognized"]>> ELSE << >>

(* The strategy's fallback, when neither declaration names an encoding. *)
FallBack(strategy, unresolvable, warnings) ==
  IF unresolvable
  THEN IF strategy.unrecognized = Absent THEN Failed("EncodingUnrecognized")
       ELSE Resolved("Unrecognized", strategy.unrecognized, warnings)
  ELSE IF strategy.unspecified = Absent THEN Failed("EncodingUnspecified")
       ELSE Resolved("Unspecified", strategy.unspecified,
                     Append(warnings, [warning |-> "EncodingUnspecified"]))

ResolveDeclared(strategy, label, code) ==
  LET byLabel  == NamedByLabel(label)
      byCode   == NamedByCode(code)
      warnings == UnrecognizedWarnings(byLabel)
  IN  IF byLabel \in Encodings
      THEN Resolved("Label", byLabel, MismatchWarnings(byLabel, byCode))
      ELSE IF byCode \in Encodings
      THEN Resolved("Codepage", byCode, warnings)
      ELSE FallBack(strategy, NoEncoding \in {byLabel, byCode},
                    warnings \o UnrecognizedWarnings(byCode))

(* resolve *)
Resolve(strategy, label, code) ==
  IF strategy.override # Absent THEN Resolved("Overridden", strategy.override, << >>)
  ELSE ResolveDeclared(strategy, label, code)

(* declared_encoding: what the file itself names, whatever the strategy. *)
DeclaredEncoding(label, code) == ResolveDeclared(HonourDeclared(Absent, Absent), label, code)
===================================================================================
