--------------------------- MODULE MCAlgorithmRun ---------------------------
(***************************************************************************)
(* Two cases, one probe in each direction: a SYSTEM run, an APPLICATION    *)
(* run that goes on after failures, one that stops at the first but not at *)
(* a packet failure, and runs in which one end lacks the second case.      *)
(* The catalogue of cases is checked with the tables of the program.       *)
(***************************************************************************)
EXTENDS AlgorithmRun, AlgorithmCatalog

Run(app, cont, contData, lacks) ==
    [app |-> app, cont |-> cont, contData |-> contData, lacks |-> lacks]
Nothing == [p \in Side |-> {}]

MCOptions == {Run(FALSE, TRUE, FALSE, Nothing), Run(TRUE, TRUE, FALSE, Nothing),
              Run(TRUE, FALSE, TRUE, Nothing), Run(FALSE, TRUE, FALSE, [Nothing EXCEPT !["s"] = {2}]),
              Run(TRUE, TRUE, FALSE, [Nothing EXCEPT !["c"] = {2}])}

-----------------------------------------------------------------------------
(* The tables of src/app/algorithm_catalog.c                               *)

MCEncryptionNames ==
    << <<"3des", "3DES_CBC">>, <<"cast128", "CAST_CBC-128">>, <<"blowfish128", "BLOWFISH_CBC-128">>,
       <<"blowfish192", "BLOWFISH_CBC-192">>, <<"blowfish256", "BLOWFISH_CBC-256">>,
       <<"null", "NULL">>, <<"aes128", "AES_CBC-128">>, <<"aes192", "AES_CBC-192">>,
       <<"aes256", "AES_CBC-256">>, <<"camellia128", "CAMELLIA_CBC-128">>,
       <<"camellia192", "CAMELLIA_CBC-192">>, <<"camellia256", "CAMELLIA_CBC-256">> >>
MCAeadNames ==
    << <<"aes128gcm8", "AES_GCM_8-128">>, <<"aes192gcm8", "AES_GCM_8-192">>,
       <<"aes256gcm8", "AES_GCM_8-256">>, <<"aes128gcm12", "AES_GCM_12-128">>,
       <<"aes192gcm12", "AES_GCM_12-192">>, <<"aes256gcm12", "AES_GCM_12-256">>,
       <<"aes128gcm16", "AES_GCM_16-128">>, <<"aes192gcm16", "AES_GCM_16-192">>,
       <<"aes256gcm16", "AES_GCM_16-256">>, <<"chacha20poly1305", "CHACHA20_POLY1305">> >>
MCIntegrityNames ==
    << <<"md5", "HMAC_MD5_96">>, <<"md5_128", "HMAC_MD5_128">>, <<"sha1", "HMAC_SHA1_96">>,
       <<"sha1_160", "HMAC_SHA1_160">>, <<"aesxcbc", "AES_XCBC_96">>, <<"aescmac", "AES_CMAC_96">>,
       <<"sha256", "HMAC_SHA2_256_128">>, <<"sha384", "HMAC_SHA2_384_192">>,
       <<"sha512", "HMAC_SHA2_512_256">> >>
MCPrfNames ==
    << <<"prfmd5", "PRF_HMAC_MD5">>, <<"prfsha1", "PRF_HMAC_SHA1">>,
       <<"prfaesxcbc", "PRF_AES128_XCBC">>, <<"prfaescmac", "PRF_AES128_CMAC">>,
       <<"prfsha256", "PRF_HMAC_SHA2_256">>, <<"prfsha384", "PRF_HMAC_SHA2_384">>,
       <<"prfsha512", "PRF_HMAC_SHA2_512">> >>
MCKeNames ==
    << <<"modp768", "MODP_768">>, <<"modp1024", "MODP_1024">>, <<"modp1536", "MODP_1536">>,
       <<"modp2048", "MODP_2048">>, <<"modp3072", "MODP_3072">>, <<"modp4096", "MODP_4096">>,
       <<"modp6144", "MODP_6144">>, <<"modp8192", "MODP_8192">>, <<"modp1024s160", "MODP_1024_160">>,
       <<"modp2048s224", "MODP_2048_224">>, <<"modp2048s256", "MODP_2048_256">>,
       <<"ecp192", "ECP_192">>, <<"ecp224", "ECP_224">>, <<"ecp256", "ECP_256">>,
       <<"ecp384", "ECP_384">>, <<"ecp521", "ECP_521">>, <<"ecp224bp", "ECP_224_BP">>,
       <<"ecp256bp", "ECP_256_BP">>, <<"ecp384bp", "ECP_384_BP">>, <<"ecp512bp", "ECP_512_BP">>,
       <<"curve25519", "CURVE_25519">>, <<"curve448", "CURVE_448">> >>

KeywordsOf(names) == [i \in 1..Len(names) |-> names[i][1]]

\* The keyword tables of encryption, AEAD, PRF, key exchange and IKE integrity
\* are those of the name tables, in the same order.
MCClassicEncryption == KeywordsOf(MCEncryptionNames)
MCAead == KeywordsOf(MCAeadNames)
MCIkePrf == KeywordsOf(MCPrfNames)
MCKe == KeywordsOf(MCKeNames)
MCIkeIntegrity == KeywordsOf(MCIntegrityNames)
MCEspIntegrity == <<"md5", "md5_128", "sha1", "sha1_160", "aesxcbc", "sha256", "sha384", "sha512">>
MCEsnModes == <<"noesn", "esn">>

BaseIke == <<"aes256", "sha256", "prfsha256", "modp2048">>
BaseEsp == <<"aes256", "sha256">>
Ike(p) == [ike |-> p, esp |-> BaseEsp]
Esp(p) == [ike |-> BaseIke, esp |-> p]

\* Each baseline case varies the base case in one place.
MCBaselineCases ==
    LET Encryption(e) == Ike(<<e, "sha256", "prfsha256", "modp2048">>)
        Group(i, p, k) == Ike(<<"aes256", i, p, k>>)
        Gcm(e, k) == Ike(<<e, "prfsha256", k>>)
    IN
    << Ike(BaseIke), Encryption("aes128"), Encryption("aes192"), Encryption("aes256"),
       Group("sha256", "prfsha256", "modp2048"), Group("sha384", "prfsha256", "modp2048"),
       Group("sha512", "prfsha256", "modp2048"), Group("sha256", "prfsha256", "modp2048"),
       Group("sha256", "prfsha384", "modp2048"), Group("sha256", "prfsha512", "modp2048"),
       Group("sha256", "prfsha256", "modp2048"), Group("sha256", "prfsha256", "modp3072"),
       Group("sha256", "prfsha256", "modp4096"), Group("sha256", "prfsha256", "modp6144"),
       Group("sha256", "prfsha256", "modp8192"), Group("sha256", "prfsha256", "ecp256"),
       Group("sha256", "prfsha384", "ecp384"), Group("sha512", "prfsha512", "ecp521"),
       Group("sha256", "prfsha256", "curve25519"), Group("sha512", "prfsha512", "curve448"),
       Gcm("aes128gcm16", "modp2048"), Gcm("aes192gcm16", "modp2048"), Gcm("aes256gcm8", "modp2048"),
       Gcm("aes256gcm12", "modp2048"), Gcm("aes256gcm16", "modp2048"),
       Gcm("chacha20poly1305", "curve25519"),
       Esp(<<"aes128", "sha256">>), Esp(<<"aes192", "sha256">>), Esp(BaseEsp),
       Esp(<<"aes256", "sha384">>), Esp(<<"aes256", "sha512">>),
       Esp(<<"aes128gcm16">>), Esp(<<"aes192gcm16">>), Esp(<<"aes256gcm8">>), Esp(<<"aes256gcm12">>),
       Esp(<<"aes256gcm16">>), Esp(<<"chacha20poly1305">>),
       Esp(Append(BaseEsp, "modp2048")), Esp(Append(BaseEsp, "ecp256")),
       Esp(Append(BaseEsp, "ecp384")), Esp(Append(BaseEsp, "curve25519")),
       Esp(<<"aes256gcm16", "noesn">>), Esp(<<"aes256gcm16", "esn">>),
       Encryption("camellia128"), Encryption("camellia192"), Encryption("camellia256"),
       Esp(<<"camellia128", "sha256">>), Esp(<<"camellia192", "sha256">>),
       Esp(<<"camellia256", "sha256">>),
       Group("aesxcbc", "prfaesxcbc", "modp2048"), Group("aescmac", "prfaescmac", "modp2048"),
       Group("sha256", "prfsha256", "ecp256bp"), Group("sha384", "prfsha384", "ecp384bp"),
       Group("sha512", "prfsha512", "ecp512bp") >>

-----------------------------------------------------------------------------
(* What the catalogue promises the runner                                  *)

Entries(t) == {t[i] : i \in 1..Len(t)}

\* An exhaustive run goes through every combination of keywords, each once
\* (GetNativeAppExhaustiveIkeCase, GetNativeAppExhaustiveEspCase).
ASSUME MatrixComplete ==
    /\ {GetNativeAppExhaustiveIkeCase(i) : i \in 0..(IkeCount - 1)} =
          (Entries(ClassicEncryption) \X Entries(IkeIntegrity) \X Entries(IkePrf) \X Entries(Ke))
          \cup (Entries(Aead) \X Entries(IkePrf) \X Entries(Ke))
    /\ {GetNativeAppExhaustiveEspCase(i) : i \in 0..(EspCount - 1)} =
          (Entries(ClassicEncryption) \X Entries(EspIntegrity) \X Entries(EsnModes))
          \cup (Entries(ClassicEncryption) \X Entries(EspIntegrity) \X Entries(Ke) \X Entries(EsnModes))
          \cup (Entries(Aead) \X Entries(EsnModes))
          \cup (Entries(Aead) \X Entries(Ke) \X Entries(EsnModes))

\* Every case of the catalogue has an expected proposal, and in a matrix no two
\* cases expect the same one: the state of an SA tells its case
\* (BuildNativeAppExpectedProposals, QueryNativeAppAlgorithmState).
ASSUME ExpectedTellsCase ==
    LET ike == {BuildNativeAppExpectedIkeProposal(GetNativeAppExhaustiveIkeCase(i)) :
                   i \in 0..(IkeCount - 1)}
        esp == {<<BuildNativeAppExpectedEspProposal(GetNativeAppExhaustiveEspCase(i)),
                  HasToken(GetNativeAppExhaustiveEspCase(i), "esn")>> : i \in 0..(EspCount - 1)}
    IN
    /\ NotSupported \notin ike /\ Cardinality(ike) = IkeCount
    /\ \A e \in esp : e[1] # NotSupported
    /\ Cardinality(esp) = EspCount
    /\ \A i \in 1..Len(BaselineCases) :
          /\ BuildNativeAppExpectedIkeProposal(BaselineCases[i].ike) # NotSupported
          /\ BuildNativeAppExpectedEspProposal(BaselineCases[i].esp) # NotSupported

\* A case expects a separate exchange for its CHILD SA exactly when the reported
\* proposal will name a key exchange method, and at most one of ESN and no ESN
\* (SetNativeAppExpectedChildKe).
ASSUME ChildExpectationAgrees ==
    \A mode \in {"baseline", "exhaustive-esp"} :
        \A i \in 0..(GetNativeAppAlgorithmCaseCount(mode) - 1) :
            LET c == GetNativeAppAlgorithmCase(mode, i, Ike(BaseIke), Ike(BaseIke))
                text == BuildNativeAppExpectedEspProposal(c.esp)
            IN  /\ c.separate <=> \E k \in 1..Len(KeNames) : HasToken(text, KeNames[k][2])
                /\ c.separate => HasToken(text, c.childKe)
                /\ ~(c.esn /\ c.noesn)
=============================================================================
