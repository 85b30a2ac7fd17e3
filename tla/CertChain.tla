------------------------------ MODULE CertChain -------------------------------
(***************************************************************************)
(* application/cert-chain+cbor (go/signedexchange/certurl/certchain.go),   *)
(* and what gen-certurl puts into it.                                      *)
(* An augmented certificate is [cert, ocsp, sct]; cert is the DER encoding,*)
(* and ocsp and sct are <<>> where the code has nil, and <<octets>> where  *)
(* there are octets, be it none.                                           *)
(***************************************************************************)
EXTENDS Cbor

CONSTANTS
  OctetRange,    \* the number of octets there are: 256
  HeaderLength   \* version and LogID of an SCT: 33

ASSUME SctListAssumption ==
  OctetRange \in Nat \ {0, 1} /\ HeaderLength \in Nat \ {0}

-----------------------------------------------------------------------------
MagicString == <<240, 159, 147, 156, 226, 155, 147>>   \* two characters
CertKey == <<99, 101, 114, 116>>
OcspKey == <<111, 99, 115, 112>>
SctKey == <<115, 99, 116>>

None == <<>>
Some(octets) == <<octets>>

(* NewCertChain: the OCSP response and the SCT list go with the first one. *)
NewCertChain(certs, ocsp, sct) ==
  [i \in DOMAIN certs |-> [cert |-> certs[i],
                           ocsp |-> IF i = 1 THEN ocsp ELSE None,
                           sct |-> IF i = 1 THEN sct ELSE None]]

(* Validate *)
IsValid(chain) ==
  chain # <<>> /\ \A i \in DOMAIN chain : chain[i].ocsp # None <=> i = 1

MapEntry(key, value) == [key |-> EncodeTextString(key), value |-> EncodeByteString(value)]
MapEntryIfAny(key, option) == [i \in DOMAIN option |-> MapEntry(key, option[i])]

EncodeTo(ac) ==
  EncodeMap(<<MapEntry(CertKey, ac.cert)>> \o MapEntryIfAny(OcspKey, ac.ocsp)
              \o MapEntryIfAny(SctKey, ac.sct)).out

(* Write, of a chain that IsValid. *)
Write(chain) ==
  EncodeArrayHeader(Len(chain) + 1) \o EncodeTextString(MagicString)
    \o FlattenSeq([i \in DOMAIN chain |-> EncodeTo(chain[i])])

(* x509.ParseCertificate takes octets that begin a DER sequence; Raw is all*)
(* of them.                                                                *)
ParsesAsCertificate(octets) == octets # <<>> /\ octets[1] = 48

-----------------------------------------------------------------------------
(* Reading.  A certificate under way has an optional cert.                 *)

With(ac, key, value) ==
  CASE key = CertKey -> [ac EXCEPT !.cert = Some(value)]
    [] key = OcspKey -> [ac EXCEPT !.ocsp = Some(value)]
    [] key = SctKey -> [ac EXCEPT !.sct = Some(value)]
    [] OTHER -> ac

DecodeEntry(ac, in) ==
  Then(DecodeTextString(in), LAMBDA key, afterKey :
    Then(DecodeByteString(afterKey), LAMBDA value, rest :
      IF key = CertKey /\ ~ParsesAsCertificate(value) THEN Error
      ELSE Ok(With(ac, key, value), rest)))

(* n times Decode(value, in), until it fails. *)
Times(n, Decode(_, _), first) ==
  FoldLeft(LAMBDA got, i : Then(got, Decode), first, [i \in 1..n |-> i])

(* DecodeAugmentedCertificateFrom.  A map with more entries than there are *)
(* octets left fails, like any that ends too early.                        *)
DecodeAugmentedCertificateFrom(in) ==
  Then(DecodeMapHeader(in), LAMBDA m, entries :
    IF Magnitude(m) > Len(entries) THEN Error
    ELSE Then(Times(Magnitude(m), DecodeEntry,
                    Ok([cert |-> None, ocsp |-> None, sct |-> None], entries)),
              LAMBDA ac, rest :
                IF ac.cert = None THEN Error
                ELSE Ok([ac EXCEPT !.cert = @[1]], rest)))

DecodeAnother(chain, in) ==
  Then(DecodeAugmentedCertificateFrom(in), LAMBDA ac, rest : Ok(Append(chain, ac), rest))

(* ReadCertChain: what follows the chain is not looked at. *)
ReadCertChain(in) ==
  Then(DecodeArrayHeader(in), LAMBDA n, items :
    IF Magnitude(n) < 2 \/ Magnitude(n) > Len(items) THEN Error
    ELSE Then(DecodeTextString(items), LAMBDA magic, certs :
      IF magic # MagicString THEN Error
      ELSE Then(Times(Magnitude(n) - 1, DecodeAnother, Ok(<<>>, certs)), LAMBDA chain, rest :
        IF IsValid(chain) THEN Ok(chain, rest) ELSE Error)))

-----------------------------------------------------------------------------
(* gen-certurl (go/signedexchange/cmd/gen-certurl/main.go), from the files *)
(* it has read, or the OCSP response it has fetched, to what it prints; and*)
(* the lists of signed certificate timestamps that it puts into a chain    *)
(* (go/signedexchange/certurl/sct.go): each SCT is preceded by its length  *)
(* in two octets, and all of them by the length of the rest.               *)

MaxSerializedSCTLength == OctetRange * OctetRange - 1

(* binary.Write and binary.Read of a uint16 *)
Uint16(n) == <<n \div OctetRange, n % OctetRange>>
ValueOf(bs) == bs[1] * OctetRange + bs[2]

(* Mutant of TotalLength: the lengths themselves are forgotten. *)
LengthOfScts(scts) == FoldLeft(LAMBDA n, sct : n + Len(sct), 0, scts)

TotalLength(scts) == FoldLeft(LAMBDA n, sct : n + Len(sct) + 2, 0, scts)

CanSerialize(scts) ==
  /\ \A i \in DOMAIN scts : Len(scts[i]) <= MaxSerializedSCTLength
  /\ TotalLength(scts) <= MaxSerializedSCTLength

SerializeSCTList(scts) ==
  Uint16(TotalLength(scts))
    \o FlattenSeq([i \in DOMAIN scts |-> Uint16(Len(scts[i])) \o scts[i]])

(* prettyPrintSCT: the LogIDs it prints, and whether an error follows them.*)
Printed(ids, error) == [ids |-> ids, error |-> error]

RECURSIVE PrintRest(_, _)
PrintRest(in, ids) ==
  IF in = <<>> THEN Printed(ids, FALSE)
  ELSE IF Len(in) < 2 THEN Printed(ids, TRUE)
  ELSE LET end == 2 + ValueOf(in)
           sct == SubSeq(in, 3, end)
       IN IF end > Len(in) \/ Len(sct) < HeaderLength THEN Printed(ids, TRUE)
          ELSE IF sct[1] # 0 THEN Printed(ids, TRUE)
          ELSE PrintRest(SubSeq(in, end + 1, Len(in)),
                         Append(ids, SubSeq(sct, 2, HeaderLength)))

PrettyPrintSCT(in) ==
  IF Len(in) < 2 THEN Printed(<<>>, TRUE)
  ELSE IF ValueOf(in) # Len(in) - 2 THEN Printed(<<>>, TRUE)
  ELSE PrintRest(SubSeq(in, 3, Len(in)), <<>>)

-----------------------------------------------------------------------------
(* run: pem has the certificates of the PEM file, and scts the contents of *)
(* the .sct files of -sctDir, if there is that flag.                       *)
GenCertUrl(pem, ocsp, scts) ==
  LET sctList == [i \in DOMAIN scts |-> SerializeSCTList(scts[i])]
  IN IF pem = <<>> THEN Error
     ELSE IF scts # None /\ ~CanSerialize(scts[1]) THEN Error
     ELSE Ok(Write(NewCertChain(pem, Some(ocsp), sctList)), <<>>)
===============================================================================
