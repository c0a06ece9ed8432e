-------------------------- MODULE AlgorithmCatalog --------------------------
(***************************************************************************)
(* The cases of an algorithm test (src/app/algorithm_catalog.c).  A        *)
(* proposal is the sequence of its keywords.  An exhaustive matrix has no  *)
(* table of its cases: the index of a case is taken apart into the indices *)
(* of its keywords.  The text a daemon is expected to report for an SA is  *)
(* the sequence of the observed names of the keywords.                     *)
(***************************************************************************)
EXTENDS Integers, Sequences

CONSTANTS ClassicEncryption, Aead, IkeIntegrity, EspIntegrity, IkePrf, Ke, EsnModes,
                                \* the keywords of each kind
          EncryptionNames, AeadNames, IntegrityNames, PrfNames, KeNames,
                                \* pairs of a keyword and its observed name
          BaselineCases         \* records of an IKE and an ESP proposal

Keywords == {ClassicEncryption, Aead, IkeIntegrity, EspIntegrity, IkePrf, Ke, EsnModes}

\* Every table has entries and names none twice; an encryption keyword says
\* which of the two forms of a proposal it belongs to.
ASSUME CatalogAssumption ==
    /\ \A t \in Keywords :
          /\ t \in Seq(STRING) /\ Len(t) > 0
          /\ \A i, j \in 1..Len(t) : t[i] = t[j] => i = j
    /\ \A i \in 1..Len(ClassicEncryption), j \in 1..Len(Aead) : ClassicEncryption[i] # Aead[j]

-----------------------------------------------------------------------------
(* The exhaustive matrices                                                 *)

IkeClassicCount == Len(ClassicEncryption) * Len(IkeIntegrity) * Len(IkePrf) * Len(Ke)
IkeCount == IkeClassicCount + Len(Aead) * Len(IkePrf) * Len(Ke)

PfsCount == Len(Ke) + 1
EspClassicCount == Len(ClassicEncryption) * Len(EspIntegrity) * PfsCount * Len(EsnModes)
EspCount == EspClassicCount + Len(Aead) * PfsCount * Len(EsnModes)

\* One keyword after the other is split off the index, the last one first.
GetNativeAppExhaustiveIkeCase(index) ==
    LET classic == index < IkeClassicCount
        value == IF classic THEN index ELSE index - IkeClassicCount
        afterKe == value \div Len(Ke)
        afterPrf == afterKe \div Len(IkePrf)
        prf == IkePrf[(afterKe % Len(IkePrf)) + 1]
        ke == Ke[(value % Len(Ke)) + 1]
    IN
    IF classic
    THEN <<ClassicEncryption[(afterPrf \div Len(IkeIntegrity)) + 1],
           IkeIntegrity[(afterPrf % Len(IkeIntegrity)) + 1], prf, ke>>
    ELSE <<Aead[afterPrf + 1], prf, ke>>

\* The first of the PFS choices is none.
GetNativeAppExhaustiveEspCase(index) ==
    LET classic == index < EspClassicCount
        value == IF classic THEN index ELSE index - EspClassicCount
        afterEsn == value \div Len(EsnModes)
        afterPfs == afterEsn \div PfsCount
        pfs == afterEsn % PfsCount
        esn == EsnModes[(value % Len(EsnModes)) + 1]
        encryption == IF classic THEN ClassicEncryption[(afterPfs \div Len(EspIntegrity)) + 1]
                      ELSE Aead[afterPfs + 1]
        integrity == EspIntegrity[(afterPfs % Len(EspIntegrity)) + 1]
    IN
    IF classic
    THEN IF pfs = 0 THEN <<encryption, integrity, esn>> ELSE <<encryption, integrity, Ke[pfs], esn>>
    ELSE IF pfs = 0 THEN <<encryption, esn>> ELSE <<encryption, Ke[pfs], esn>>

GetNativeAppAlgorithmCaseCount(mode) ==
    CASE mode = "baseline" -> Len(BaselineCases)
      [] mode = "exhaustive-ike" -> IkeCount
      [] mode = "exhaustive-esp" -> EspCount
      [] mode = "custom" -> 1

-----------------------------------------------------------------------------
(* A case and what is expected of it                                       *)

\* HasNativeAppAlgorithmToken, for whole keywords between hyphens
HasToken(proposal, token) == \E i \in 1..Len(proposal) : proposal[i] = token

\* FindNativeAppObservedName, FindNativeAppKeObservedName
FindObservedName(names, keyword) ==
    IF \E i \in 1..Len(names) : names[i][1] = keyword
    THEN names[CHOOSE i \in 1..Len(names) :
                  names[i][1] = keyword /\ \A j \in 1..(i - 1) : names[j][1] # keyword][2]
    ELSE "none"

\* SetNativeAppExpectedChildKe: the first method of the table in the proposal
ExpectedChildKe(esp) ==
    IF \E i \in 1..Len(KeNames) : HasToken(esp, KeNames[i][1])
    THEN KeNames[CHOOSE i \in 1..Len(KeNames) :
                    /\ HasToken(esp, KeNames[i][1])
                    /\ \A j \in 1..(i - 1) : ~HasToken(esp, KeNames[j][1])][2]
    ELSE "none"

Expecting(ike, esp) ==
    [ike |-> ike, esp |-> esp, childKe |-> ExpectedChildKe(esp),
     separate |-> ExpectedChildKe(esp) # "none",
     esn |-> HasToken(esp, "esn"), noesn |-> HasToken(esp, "noesn")]

GetNativeAppAlgorithmCase(mode, index, base, custom) ==
    CASE mode = "baseline" -> Expecting(BaselineCases[index + 1].ike, BaselineCases[index + 1].esp)
      [] mode = "exhaustive-ike" -> Expecting(GetNativeAppExhaustiveIkeCase(index), base.esp)
      [] mode = "exhaustive-esp" -> Expecting(base.ike, GetNativeAppExhaustiveEspCase(index))
      [] mode = "custom" -> Expecting(custom.ike, custom.esp)

NotSupported == <<"none">>
AllFound(names) == IF \E i \in 1..Len(names) : names[i] = "none" THEN NotSupported ELSE names
IsAead(proposal) == FindObservedName(AeadNames, proposal[1]) # "none"

BuildNativeAppExpectedIkeProposal(p) ==
    IF IsAead(p)
    THEN IF Len(p) # 3 THEN NotSupported
         ELSE AllFound(<<FindObservedName(AeadNames, p[1]), FindObservedName(PrfNames, p[2]),
                         FindObservedName(KeNames, p[3])>>)
    ELSE IF Len(p) # 4 THEN NotSupported
         ELSE AllFound(<<FindObservedName(EncryptionNames, p[1]),
                         FindObservedName(IntegrityNames, p[2]),
                         FindObservedName(PrfNames, p[3]), FindObservedName(KeNames, p[4])>>)

\* ESN is reported separately from the proposal text; a proposal has at most
\* five keywords.
BuildNativeAppExpectedEspProposal(p) ==
    LET head == IF IsAead(p) THEN <<FindObservedName(AeadNames, p[1])>>
                ELSE IF Len(p) < 2 THEN NotSupported
                ELSE <<FindObservedName(EncryptionNames, p[1]), FindObservedName(IntegrityNames, p[2])>>
        rest == SelectSeq(SubSeq(p, IF IsAead(p) THEN 2 ELSE 3, Len(p)),
                          LAMBDA k : k \notin {"esn", "noesn"})
    IN  IF Len(p) > 5 THEN NotSupported
        ELSE AllFound(head \o [i \in 1..Len(rest) |-> FindObservedName(KeNames, rest[i])])
=============================================================================
