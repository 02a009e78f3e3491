------------------------------- MODULE Tables -------------------------------
(***************************************************************************)
(* The generated tables of kmip14 and kmip20 (kmip_1_4_generated.go,       *)
(* kmip_2_0_additions_generated.go) for the ten tags that both packages    *)
(* register: of every enumeration, the values and their canonical names.   *)
(***************************************************************************)
EXTENDS Integers, Sequences, TLC

\* The names of k and of the values after it.
From(k, names) == [v \in k .. k + Len(names) - 1 |-> names[v - k + 1]]

CredentialType14 ==
  From(1, <<"Username and Password", "Device", "Attestation">>)

CryptographicAlgorithm14 ==
  From(1,
    <<"DES", "3DES", "AES", "RSA", "DSA", "ECDSA", "HMAC-SHA1", "HMAC-SHA224", "HMAC-SHA256",
      "HMAC-SHA384", "HMAC-SHA512", "HMAC-MD5", "DH", "ECDH", "ECMQV", "Blowfish", "Camellia", "CAST5",
      "IDEA", "MARS", "RC2", "RC4", "RC5", "SKIPJACK", "Twofish", "EC", "One Time Pad", "ChaCha20",
      "Poly1305", "ChaCha20Poly1305", "SHA3-224", "SHA3-256", "SHA3-384", "SHA3-512", "HMAC-SHA3-224",
      "HMAC-SHA3-256", "HMAC-SHA3-384", "HMAC-SHA3-512", "SHAKE-128", "SHAKE-256">>)

DerivationMethod14 ==
  From(1,
    <<"PBKDF2", "HASH", "HMAC", "ENCRYPT", "NIST800 - 108 - C", "NIST800 - 108 - F",
      "NIST800 - 108 - DPI", "Asymmetric Key">>)

LinkType14 ==
  From(257,
    <<"Certificate Link", "Public Key Link", "Private Key Link", "Derivation Base Object Link",
      "Derived Key Link", "Replacement Object Link", "Replaced Object Link", "Parent Link",
      "Child Link", "Previous Link", "Next Link", "PKCS#12 Certificate Link", "PKCS#12 Password Link">>)

ObjectType14 ==
  From(1,
    <<"Certificate", "Symmetric Key", "Public Key", "Private Key", "Split Key", "Template",
      "Secret Data", "Opaque Object", "PGP Key">>)

Operation14 ==
  From(1,
    <<"Create", "Create Key Pair", "Register", "Re-key", "Derive Key", "Certify", "Re-certify",
      "Locate", "Check", "Get", "Get Attributes", "Get Attribute List", "Add Attribute",
      "Modify Attribute", "Delete Attribute", "Obtain Lease", "Get Usage Allocation", "Activate",
      "Revoke", "Destroy", "Archive", "Recover", "Validate", "Query", "Cancel", "Poll", "Notify", "Put",
      "Re-key Key Pair", "Discover Versions", "Encrypt", "Decrypt", "Sign", "Signature Verify", "MAC",
      "MAC Verify", "RNG Retrieve", "RNG Seed", "Hash", "Create Split Key", "Join Split Key", "Import",
      "Export">>)

ProfileName14 ==
  From(1,
    <<"Baseline Server Basic KMIP v1.2", "Baseline Server TLS v1.2 KMIP v1.2",
      "Baseline Client Basic KMIP v1.2", "Baseline Client TLS v1.2 KMIP v1.2",
      "Complete Server Basic KMIP v1.2", "Complete Server TLS v1.2 KMIP v1.2",
      "Tape Library Client KMIP v1.0", "Tape Library Client KMIP v1.1", "Tape Library Client KMIP v1.2",
      "Tape Library Server KMIP v1.0", "Tape Library Server KMIP v1.1", "Tape Library Server KMIP v1.2",
      "Symmetric Key Lifecycle Client KMIP v1.0", "Symmetric Key Lifecycle Client KMIP v1.1",
      "Symmetric Key Lifecycle Client KMIP v1.2", "Symmetric Key Lifecycle Server KMIP v1.0",
      "Symmetric Key Lifecycle Server KMIP v1.1", "Symmetric Key Lifecycle Server KMIP v1.2",
      "Asymmetric Key Lifecycle Client KMIP v1.0", "Asymmetric Key Lifecycle Client KMIP v1.1",
      "Asymmetric Key Lifecycle Client KMIP v1.2", "Asymmetric Key Lifecycle Server KMIP v1.0",
      "Asymmetric Key Lifecycle Server KMIP v1.1", "Asymmetric Key Lifecycle Server KMIP v1.2",
      "Basic Cryptographic Client KMIP v1.2", "Basic Cryptographic Server KMIP v1.2",
      "Advanced Cryptographic Client KMIP v1.2", "Advanced Cryptographic Server KMIP v1.2",
      "RNG Cryptographic Client KMIP v1.2", "RNG Cryptographic Server KMIP v1.2",
      "Basic Symmetric Key Foundry Client KMIP v1.0",
      "Intermediate Symmetric Key Foundry Client KMIP v1.0",
      "Advanced Symmetric Key Foundry Client KMIP v1.0", "Basic Symmetric Key Foundry Client KMIP v1.1",
      "Intermediate Symmetric Key Foundry Client KMIP v1.1",
      "Advanced Symmetric Key Foundry Client KMIP v1.1", "Basic Symmetric Key Foundry Client KMIP v1.2",
      "Intermediate Symmetric Key Foundry Client KMIP v1.2",
      "Advanced Symmetric Key Foundry Client KMIP v1.2", "Symmetric Key Foundry Server KMIP v1.0",
      "Symmetric Key Foundry Server KMIP v1.1", "Symmetric Key Foundry Server KMIP v1.2",
      "Opaque Managed Object Store Client KMIP v1.0", "Opaque Managed Object Store Client KMIP v1.1",
      "Opaque Managed Object Store Client KMIP v1.2", "Opaque Managed Object Store Server KMIP v1.0",
      "Opaque Managed Object Store Server KMIP v1.1", "Opaque Managed Object Store Server KMIP v1.2",
      "Suite B minLOS_128 Client KMIP v1.0", "Suite B minLOS_128 Client KMIP v1.1",
      "Suite B minLOS_128 Client KMIP v1.2", "Suite B minLOS_128 Server KMIP v1.0",
      "Suite B minLOS_128 Server KMIP v1.1", "Suite B minLOS_128 Server KMIP v1.2",
      "Suite B minLOS_192 Client KMIP v1.0", "Suite B minLOS_192 Client KMIP v1.1",
      "Suite B minLOS_192 Client KMIP v1.2", "Suite B minLOS_192 Server KMIP v1.0",
      "Suite B minLOS_192 Server KMIP v1.1", "Suite B minLOS_192 Server KMIP v1.2",
      "Storage Array with Self Encrypting Drive Client KMIP v1.0",
      "Storage Array with Self Encrypting Drive Client KMIP v1.1",
      "Storage Array with Self Encrypting Drive Client KMIP v1.2",
      "Storage Array with Self Encrypting Drive Server KMIP v1.0",
      "Storage Array with Self Encrypting Drive Server KMIP v1.1",
      "Storage Array with Self Encrypting Drive Server KMIP v1.2", "HTTPS Client KMIP v1.0",
      "HTTPS Client KMIP v1.1", "HTTPS Client KMIP v1.2", "HTTPS Server KMIP v1.0",
      "HTTPS Server KMIP v1.1", "HTTPS Server KMIP v1.2", "JSON Client KMIP v1.0",
      "JSON Client KMIP v1.1", "JSON Client KMIP v1.2", "JSON Server KMIP v1.0",
      "JSON Server KMIP v1.1", "JSON Server KMIP v1.2", "XML Client KMIP v1.0", "XML Client KMIP v1.1",
      "XML Client KMIP v1.2", "XML Server KMIP v1.0", "XML Server KMIP v1.1", "XML Server KMIP v1.2",
      "Baseline Server Basic KMIP v1.3", "Baseline Server TLS v1.2 KMIP v1.3",
      "Baseline Client Basic KMIP v1.3", "Baseline Client TLS v1.2 KMIP v1.3",
      "Complete Server Basic KMIP v1.3", "Complete Server TLS v1.2 KMIP v1.3",
      "Tape Library Client KMIP v1.3", "Tape Library Server KMIP v1.3",
      "Symmetric Key Lifecycle Client KMIP v1.3", "Symmetric Key Lifecycle Server KMIP v1.3",
      "Asymmetric Key Lifecycle Client KMIP v1.3", "Asymmetric Key Lifecycle Server KMIP v1.3",
      "Basic Cryptographic Client KMIP v1.3", "Basic Cryptographic Server KMIP v1.3",
      "Advanced Cryptographic Client KMIP v1.3", "Advanced Cryptographic Server KMIP v1.3",
      "RNG Cryptographic Client KMIP v1.3", "RNG Cryptographic Server KMIP v1.3",
      "Basic Symmetric Key Foundry Client KMIP v1.3",
      "Intermediate Symmetric Key Foundry Client KMIP v1.3",
      "Advanced Symmetric Key Foundry Client KMIP v1.3", "Symmetric Key Foundry Server KMIP v1.3",
      "Opaque Managed Object Store Client KMIP v1.3", "Opaque Managed Object Store Server KMIP v1.3",
      "Suite B minLOS_128 Client KMIP v1.3", "Suite B minLOS_128 Server KMIP v1.3",
      "Suite B minLOS_192 Client KMIP v1.3", "Suite B minLOS_192 Server KMIP v1.3",
      "Storage Array with Self Encrypting Drive Client KMIP v1.3",
      "Storage Array with Self Encrypting Drive Server KMIP v1.3", "HTTPS Client KMIP v1.3",
      "HTTPS Server KMIP v1.3", "JSON Client KMIP v1.3", "JSON Server KMIP v1.3",
      "XML Client KMIP v1.3", "XML Server KMIP v1.3", "Baseline Server Basic KMIP v1.4",
      "Baseline Server TLS v1.2 KMIP v1.4", "Baseline Client Basic KMIP v1.4",
      "Baseline Client TLS v1.2 KMIP v1.4", "Complete Server Basic KMIP v1.4",
      "Complete Server TLS v1.2 KMIP v1.4", "Tape Library Client KMIP v1.4",
      "Tape Library Server KMIP v1.4", "Symmetric Key Lifecycle Client KMIP v1.4",
      "Symmetric Key Lifecycle Server KMIP v1.4", "Asymmetric Key Lifecycle Client KMIP v1.4",
      "Asymmetric Key Lifecycle Server KMIP v1.4", "Basic Cryptographic Client KMIP v1.4",
      "Basic Cryptographic Server KMIP v1.4", "Advanced Cryptographic Client KMIP v1.4",
      "Advanced Cryptographic Server KMIP v1.4", "RNG Cryptographic Client KMIP v1.4",
      "RNG Cryptographic Server KMIP v1.4", "Basic Symmetric Key Foundry Client KMIP v1.4",
      "Intermediate Symmetric Key Foundry Client KMIP v1.4",
      "Advanced Symmetric Key Foundry Client KMIP v1.4", "Symmetric Key Foundry Server KMIP v1.4",
      "Opaque Managed Object Store Client KMIP v1.4", "Opaque Managed Object Store Server KMIP v1.4",
      "Suite B minLOS_128 Client KMIP v1.4", "Suite B minLOS_128 Server KMIP v1.4",
      "Suite B minLOS_192 Client KMIP v1.4", "Suite B minLOS_192 Server KMIP v1.4",
      "Storage Array with Self Encrypting Drive Client KMIP v1.4",
      "Storage Array with Self Encrypting Drive Server KMIP v1.4", "HTTPS Client KMIP v1.4",
      "HTTPS Server KMIP v1.4", "JSON Client KMIP v1.4", "JSON Server KMIP v1.4",
      "XML Client KMIP v1.4", "XML Server KMIP v1.4">>)

QueryFunction14 ==
  From(1,
    <<"Query Operations", "Query Objects", "Query Server Information", "Query Application Namespaces",
      "Query Extension List", "Query Extension Map", "Query Attestation Types", "Query RNGs",
      "Query Validations", "Query Profiles", "Query Capabilities", "Query Client Registration Methods">>)

RecommendedCurve14 ==
  From(1,
    <<"P-192", "K-163", "B-163", "P-224", "K-233", "B-233", "P-256", "K-283", "B-283", "P-384", "K-409",
      "B-409", "P-521", "K-571", "B-571", "SECP112R1", "SECP112R2", "SECP128R1", "SECP128R2",
      "SECP160K1", "SECP160R1", "SECP160R2", "SECP192K1", "SECP224K1", "SECP256K1", "SECT113R1",
      "SECT113R2", "SECT131R1", "SECT131R2", "SECT163R1", "SECT193R1", "SECT193R2", "SECT239K1",
      "ANSIX9P192V2", "ANSIX9P192V3", "ANSIX9P239V1", "ANSIX9P239V2", "ANSIX9P239V3",
      "ANSIX9C2PNB163V1", "ANSIX9C2PNB163V2", "ANSIX9C2PNB163V3", "ANSIX9C2PNB176V1",
      "ANSIX9C2TNB191V1", "ANSIX9C2TNB191V2", "ANSIX9C2TNB191V3", "ANSIX9C2PNB208W1",
      "ANSIX9C2TNB239V1", "ANSIX9C2TNB239V2", "ANSIX9C2TNB239V3", "ANSIX9C2PNB272W1",
      "ANSIX9C2PNB304W1", "ANSIX9C2TNB359V1", "ANSIX9C2PNB368W1", "ANSIX9C2TNB431R1", "BRAINPOOLP160R1",
      "BRAINPOOLP160T1", "BRAINPOOLP192R1", "BRAINPOOLP192T1", "BRAINPOOLP224R1", "BRAINPOOLP224T1",
      "BRAINPOOLP256R1", "BRAINPOOLP256T1", "BRAINPOOLP320R1", "BRAINPOOLP320T1", "BRAINPOOLP384R1",
      "BRAINPOOLP384T1", "BRAINPOOLP512R1", "BRAINPOOLP512T1">>)

ResultReason14 ==
  From(1,
    <<"Item Not Found", "Response Too Large", "Authentication Not Successful", "Invalid Message",
      "Operation Not Supported", "Missing Data", "Invalid Field", "Feature Not Supported",
      "Operation Canceled By Requester", "Cryptographic Failure", "Illegal Operation",
      "Permission Denied", "Object archived", "Index Out of Bounds",
      "Application Namespace Not Supported", "Key Format Type Not Supported",
      "Key Compression Type Not Supported", "Encoding Option Error", "Key Value Not Present",
      "Attestation Required", "Attestation Failed", "Sensitive", "Not Extractable",
      "Object Already Exists">>)
  @@ From(256, <<"General Failure">>)

\* Variant: a name of 1.4 is changed.
CredentialTypeRenamed ==
  From(1,
    <<"Username and Password", "Device", "Attestation Data", "One Time Password", "Hashed Password",
      "Ticket">>)

CredentialType20 ==
  From(1,
    <<"Username and Password", "Device", "Attestation", "One Time Password", "Hashed Password", "Ticket">>)

CryptographicAlgorithm20 ==
  From(1,
    <<"DES", "3DES", "AES", "RSA", "DSA", "ECDSA", "HMAC-SHA1", "HMAC-SHA224", "HMAC-SHA256",
      "HMAC-SHA384", "HMAC-SHA512", "HMAC-MD5", "DH", "ECDH", "ECMQV", "Blowfish", "Camellia", "CAST5",
      "IDEA", "MARS", "RC2", "RC4", "RC5", "SKIPJACK", "Twofish", "EC", "One Time Pad", "ChaCha20",
      "Poly1305", "ChaCha20Poly1305", "SHA3-224", "SHA3-256", "SHA3-384", "SHA3-512", "HMAC-SHA3-224",
      "HMAC-SHA3-256", "HMAC-SHA3-384", "HMAC-SHA3-512", "SHAKE-128", "SHAKE-256", "ARIA", "SEED",
      "SM2", "SM3", "SM4", "GOST R 34.10-2012", "GOST R 34.11-2012", "GOST R 34.13-2015",
      "GOST 28147-89", "XMSS", "SPHINCS-256", "McEliece", "McEliece-6960119", "McEliece-8192128",
      "Ed25519", "Ed448">>)

DerivationMethod20 ==
  From(1,
    <<"PBKDF2", "HASH", "HMAC", "ENCRYPT", "NIST800 - 108 - C", "NIST800 - 108 - F",
      "NIST800 - 108 - DPI", "Asymmetric Key", "AWS Signature Version 4", "HKDF">>)

LinkType20 ==
  From(257,
    <<"Certificate Link", "Public Key Link", "Private Key Link", "Derivation Base Object Link",
      "Derived Key Link", "Replacement Object Link", "Replaced Object Link", "Parent Link",
      "Child Link", "Previous Link", "Next Link", "PKCS#12 Certificate Link", "PKCS#12 Password Link",
      "Wrapping Key Link">>)

ObjectType20 ==
  From(1,
    <<"Certificate", "Symmetric Key", "Public Key", "Private Key", "Split Key", "Template",
      "Secret Data", "Opaque Object", "PGP Key", "Certificate Request">>)

Operation20 ==
  From(1,
    <<"Create", "Create Key Pair", "Register", "Re-key", "Derive Key", "Certify", "Re-certify",
      "Locate", "Check", "Get", "Get Attributes", "Get Attribute List", "Add Attribute",
      "Modify Attribute", "Delete Attribute", "Obtain Lease", "Get Usage Allocation", "Activate",
      "Revoke", "Destroy", "Archive", "Recover", "Validate", "Query", "Cancel", "Poll", "Notify", "Put",
      "Re-key Key Pair", "Discover Versions", "Encrypt", "Decrypt", "Sign", "Signature Verify", "MAC",
      "MAC Verify", "RNG Retrieve", "RNG Seed", "Hash", "Create Split Key", "Join Split Key", "Import",
      "Export", "Log", "Login", "Logout", "Delegated Login", "Adjust Attribute", "Set Attribute",
      "Set Endpoint Role", "PKCS#11", "Interop", "Re-Provision">>)

ProfileName20 ==
  From(1,
    <<"Baseline Server Basic KMIP v1.2", "Baseline Server TLS v1.2 KMIP v1.2",
      "Baseline Client Basic KMIP v1.2", "Baseline Client TLS v1.2 KMIP v1.2",
      "Complete Server Basic KMIP v1.2", "Complete Server TLS v1.2 KMIP v1.2",
      "Tape Library Client KMIP v1.0", "Tape Library Client KMIP v1.1", "Tape Library Client KMIP v1.2",
      "Tape Library Server KMIP v1.0", "Tape Library Server KMIP v1.1", "Tape Library Server KMIP v1.2",
      "Symmetric Key Lifecycle Client KMIP v1.0", "Symmetric Key Lifecycle Client KMIP v1.1",
      "Symmetric Key Lifecycle Client KMIP v1.2", "Symmetric Key Lifecycle Server KMIP v1.0",
      "Symmetric Key Lifecycle Server KMIP v1.1", "Symmetric Key Lifecycle Server KMIP v1.2",
      "Asymmetric Key Lifecycle Client KMIP v1.0", "Asymmetric Key Lifecycle Client KMIP v1.1",
      "Asymmetric Key Lifecycle Client KMIP v1.2", "Asymmetric Key Lifecycle Server KMIP v1.0",
      "Asymmetric Key Lifecycle Server KMIP v1.1", "Asymmetric Key Lifecycle Server KMIP v1.2",
      "Basic Cryptographic Client KMIP v1.2", "Basic Cryptographic Server KMIP v1.2",
      "Advanced Cryptographic Client KMIP v1.2", "Advanced Cryptographic Server KMIP v1.2",
      "RNG Cryptographic Client KMIP v1.2", "RNG Cryptographic Server KMIP v1.2",
      "Basic Symmetric Key Foundry Client KMIP v1.0",
      "Intermediate Symmetric Key Foundry Client KMIP v1.0",
      "Advanced Symmetric Key Foundry Client KMIP v1.0", "Basic Symmetric Key Foundry Client KMIP v1.1",
      "Intermediate Symmetric Key Foundry Client KMIP v1.1",
      "Advanced Symmetric Key Foundry Client KMIP v1.1", "Basic Symmetric Key Foundry Client KMIP v1.2",
      "Intermediate Symmetric Key Foundry Client KMIP v1.2",
      "Advanced Symmetric Key Foundry Client KMIP v1.2", "Symmetric Key Foundry Server KMIP v1.0",
      "Symmetric Key Foundry Server KMIP v1.1", "Symmetric Key Foundry Server KMIP v1.2",
      "Opaque Managed Object Store Client KMIP v1.0", "Opaque Managed Object Store Client KMIP v1.1",
      "Opaque Managed Object Store Client KMIP v1.2", "Opaque Managed Object Store Server KMIP v1.0",
      "Opaque Managed Object Store Server KMIP v1.1", "Opaque Managed Object Store Server KMIP v1.2",
      "Suite B minLOS_128 Client KMIP v1.0", "Suite B minLOS_128 Client KMIP v1.1",
      "Suite B minLOS_128 Client KMIP v1.2", "Suite B minLOS_128 Server KMIP v1.0",
      "Suite B minLOS_128 Server KMIP v1.1", "Suite B minLOS_128 Server KMIP v1.2",
      "Suite B minLOS_192 Client KMIP v1.0", "Suite B minLOS_192 Client KMIP v1.1",
      "Suite B minLOS_192 Client KMIP v1.2", "Suite B minLOS_192 Server KMIP v1.0",
      "Suite B minLOS_192 Server KMIP v1.1", "Suite B minLOS_192 Server KMIP v1.2",
      "Storage Array with Self Encrypting Drive Client KMIP v1.0",
      "Storage Array with Self Encrypting Drive Client KMIP v1.1",
      "Storage Array with Self Encrypting Drive Client KMIP v1.2",
      "Storage Array with Self Encrypting Drive Server KMIP v1.0",
      "Storage Array with Self Encrypting Drive Server KMIP v1.1",
      "Storage Array with Self Encrypting Drive Server KMIP v1.2", "HTTPS Client KMIP v1.0",
      "HTTPS Client KMIP v1.1", "HTTPS Client KMIP v1.2", "HTTPS Server KMIP v1.0",
      "HTTPS Server KMIP v1.1", "HTTPS Server KMIP v1.2", "JSON Client KMIP v1.0",
      "JSON Client KMIP v1.1", "JSON Client KMIP v1.2", "JSON Server KMIP v1.0",
      "JSON Server KMIP v1.1", "JSON Server KMIP v1.2", "XML Client KMIP v1.0", "XML Client KMIP v1.1",
      "XML Client KMIP v1.2", "XML Server KMIP v1.0", "XML Server KMIP v1.1", "XML Server KMIP v1.2",
      "Baseline Server Basic KMIP v1.3", "Baseline Server TLS v1.2 KMIP v1.3",
      "Baseline Client Basic KMIP v1.3", "Baseline Client TLS v1.2 KMIP v1.3",
      "Complete Server Basic KMIP v1.3", "Complete Server TLS v1.2 KMIP v1.3",
      "Tape Library Client KMIP v1.3", "Tape Library Server KMIP v1.3",
      "Symmetric Key Lifecycle Client KMIP v1.3", "Symmetric Key Lifecycle Server KMIP v1.3",
      "Asymmetric Key Lifecycle Client KMIP v1.3", "Asymmetric Key Lifecycle Server KMIP v1.3",
      "Basic Cryptographic Client KMIP v1.3", "Basic Cryptographic Server KMIP v1.3",
      "Advanced Cryptographic Client KMIP v1.3", "Advanced Cryptographic Server KMIP v1.3",
      "RNG Cryptographic Client KMIP v1.3", "RNG Cryptographic Server KMIP v1.3",
      "Basic Symmetric Key Foundry Client KMIP v1.3",
      "Intermediate Symmetric Key Foundry Client KMIP v1.3",
      "Advanced Symmetric Key Foundry Client KMIP v1.3", "Symmetric Key Foundry Server KMIP v1.3",
      "Opaque Managed Object Store Client KMIP v1.3", "Opaque Managed Object Store Server KMIP v1.3",
      "Suite B minLOS_128 Client KMIP v1.3", "Suite B minLOS_128 Server KMIP v1.3",
      "Suite B minLOS_192 Client KMIP v1.3", "Suite B minLOS_192 Server KMIP v1.3",
      "Storage Array with Self Encrypting Drive Client KMIP v1.3",
      "Storage Array with Self Encrypting Drive Server KMIP v1.3", "HTTPS Client KMIP v1.3",
      "HTTPS Server KMIP v1.3", "JSON Client KMIP v1.3", "JSON Server KMIP v1.3",
      "XML Client KMIP v1.3", "XML Server KMIP v1.3", "Baseline Server Basic KMIP v1.4",
      "Baseline Server TLS v1.2 KMIP v1.4", "Baseline Client Basic KMIP v1.4",
      "Baseline Client TLS v1.2 KMIP v1.4", "Complete Server Basic KMIP v1.4",
      "Complete Server TLS v1.2 KMIP v1.4", "Tape Library Client KMIP v1.4",
      "Tape Library Server KMIP v1.4", "Symmetric Key Lifecycle Client KMIP v1.4",
      "Symmetric Key Lifecycle Server KMIP v1.4", "Asymmetric Key Lifecycle Client KMIP v1.4",
      "Asymmetric Key Lifecycle Server KMIP v1.4", "Basic Cryptographic Client KMIP v1.4",
      "Basic Cryptographic Server KMIP v1.4", "Advanced Cryptographic Client KMIP v1.4",
      "Advanced Cryptographic Server KMIP v1.4", "RNG Cryptographic Client KMIP v1.4",
      "RNG Cryptographic Server KMIP v1.4", "Basic Symmetric Key Foundry Client KMIP v1.4",
      "Intermediate Symmetric Key Foundry Client KMIP v1.4",
      "Advanced Symmetric Key Foundry Client KMIP v1.4", "Symmetric Key Foundry Server KMIP v1.4",
      "Opaque Managed Object Store Client KMIP v1.4", "Opaque Managed Object Store Server KMIP v1.4",
      "Suite B minLOS_128 Client KMIP v1.4", "Suite B minLOS_128 Server KMIP v1.4",
      "Suite B minLOS_192 Client KMIP v1.4", "Suite B minLOS_192 Server KMIP v1.4",
      "Storage Array with Self Encrypting Drive Client KMIP v1.4",
      "Storage Array with Self Encrypting Drive Server KMIP v1.4", "HTTPS Client KMIP v1.4",
      "HTTPS Server KMIP v1.4", "JSON Client KMIP v1.4", "JSON Server KMIP v1.4",
      "XML Client KMIP v1.4", "XML Server KMIP v1.4">>)
  @@ From(260,
    <<"Complete Server Basic", "Complete Server TLS v1.2", "Tape Library Client", "Tape Library Server",
      "Symmetric Key Lifecycle Client", "Symmetric Key Lifecycle Server",
      "Asymmetric Key Lifecycle Client", "Asymmetric Key Lifecycle Server",
      "Basic Cryptographic Client", "Basic Cryptographic Server", "Advanced Cryptographic Client",
      "Advanced Cryptographic Server", "RNG Cryptographic Client ", "RNG Cryptographic Server ",
      "Basic Symmetric Key Foundry Client ", "Intermediate Symmetric Key Foundry Client ",
      "Advanced Symmetric Key Foundry Client ", "Symmetric Key Foundry Server",
      "Opaque Managed Object Store Client ", "Opaque Managed Object Store Server ",
      "Suite B minLOS_128 Client ", "Suite B minLOS_128 Server ", "Suite B minLOS_192 Client ",
      "Suite B minLOS_192 Server ", "Storage Array with Self Encrypting Drive Client",
      "Storage Array with Self Encrypting Drive Server", "HTTPS Client ", "HTTPS Server ",
      "JSON Client ", "JSON Server ", "XML Client ", "XML Server ", "AES XTS Client", "AES XTS Server",
      "Quantum Safe Client", "Quantum Safe Server", "PKCS#11 Client", "PKCS#11 Server",
      "Baseline Client", "Baseline Server", "Complete Server">>)

QueryFunction20 ==
  From(1,
    <<"Query Operations", "Query Objects", "Query Server Information", "Query Application Namespaces",
      "Query Extension List", "Query Extension Map", "Query Attestation Types", "Query RNGs",
      "Query Validations", "Query Profiles", "Query Capabilities", "Query Client Registration Methods",
      "Query Defaults Information", "Query Storage Protection Masks">>)

RecommendedCurve20 ==
  From(1,
    <<"P-192", "K-163", "B-163", "P-224", "K-233", "B-233", "P-256", "K-283", "B-283", "P-384", "K-409",
      "B-409", "P-521", "K-571", "B-571", "SECP112R1", "SECP112R2", "SECP128R1", "SECP128R2",
      "SECP160K1", "SECP160R1", "SECP160R2", "SECP192K1", "SECP224K1", "SECP256K1", "SECT113R1",
      "SECT113R2", "SECT131R1", "SECT131R2", "SECT163R1", "SECT193R1", "SECT193R2", "SECT239K1",
      "ANSIX9P192V2", "ANSIX9P192V3", "ANSIX9P239V1", "ANSIX9P239V2", "ANSIX9P239V3",
      "ANSIX9C2PNB163V1", "ANSIX9C2PNB163V2", "ANSIX9C2PNB163V3", "ANSIX9C2PNB176V1",
      "ANSIX9C2TNB191V1", "ANSIX9C2TNB191V2", "ANSIX9C2TNB191V3", "ANSIX9C2PNB208W1",
      "ANSIX9C2TNB239V1", "ANSIX9C2TNB239V2", "ANSIX9C2TNB239V3", "ANSIX9C2PNB272W1",
      "ANSIX9C2PNB304W1", "ANSIX9C2TNB359V1", "ANSIX9C2PNB368W1", "ANSIX9C2TNB431R1", "BRAINPOOLP160R1",
      "BRAINPOOLP160T1", "BRAINPOOLP192R1", "BRAINPOOLP192T1", "BRAINPOOLP224R1", "BRAINPOOLP224T1",
      "BRAINPOOLP256R1", "BRAINPOOLP256T1", "BRAINPOOLP320R1", "BRAINPOOLP320T1", "BRAINPOOLP384R1",
      "BRAINPOOLP384T1", "BRAINPOOLP512R1", "BRAINPOOLP512T1", "CURVE25519", "CURVE448">>)

ResultReason20 ==
  From(1,
    <<"Item Not Found", "Response Too Large", "Authentication Not Successful", "Invalid Message",
      "Operation Not Supported", "Missing Data", "Invalid Field", "Feature Not Supported",
      "Operation Canceled By Requester", "Cryptographic Failure", "Illegal Operation",
      "Permission Denied", "Object archived", "Index Out of Bounds",
      "Application Namespace Not Supported", "Key Format Type Not Supported",
      "Key Compression Type Not Supported", "Encoding Option Error", "Key Value Not Present",
      "Attestation Required", "Attestation Failed", "Sensitive", "Not Extractable",
      "Object Already Exists", "Invalid Ticket", "Usage Limit Exceeded", "Numeric Range",
      "Invalid Data Type", "Read Only Attribute", "Multi Valued Attribute", "Unsupported Attribute",
      "Attribute Instance Not Found", "Attribute Not Found", "Attribute Read Only",
      "Attribute Single Valued", "Bad Cryptographic Parameters", "Bad Password", "Codec Error">>)
  @@ From(40,
    <<"Illegal Object Type", "Incompatible Cryptographic Usage Mask", "Internal Server Error",
      "Invalid Asynchronous Correlation Value", "Invalid Attribute", "Invalid Attribute Value",
      "Invalid Correlation Value", "Invalid CSR", "Invalid Object Type">>)
  @@ From(50, <<"Key Wrap Type Not Supported">>)
  @@ From(52,
    <<"Missing Initialization Vector", "Non Unique Name Attribute", "Object Destroyed",
      "Object Not Found">>)
  @@ From(57,
    <<"Not Authorized", "Server Limit Exceeded", "Unknown Enumeration", "Unknown Message Extension",
      "Unknown Tag", "Unsupported Cryptographic Parameters", "Unsupported Protocol Version",
      "Wrapping Object Archived", "Wrapping Object Destroyed", "Wrapping Object Not Found",
      "Wrong Key Lifecycle State", "Protection Storage Unavailable", "PKCS#11 Codec Error ",
      "PKCS#11 Invalid Function ", "PKCS#11 Invalid Interface">>)
  @@ From(256, <<"General Failure">>)

\* The enumerations of the tags that both packages register.
Generated14 ==
  [CredentialType |-> CredentialType14, CryptographicAlgorithm |-> CryptographicAlgorithm14,
   DerivationMethod |-> DerivationMethod14, LinkType |-> LinkType14, ObjectType |-> ObjectType14,
   Operation |-> Operation14, ProfileName |-> ProfileName14, QueryFunction |-> QueryFunction14,
   RecommendedCurve |-> RecommendedCurve14, ResultReason |-> ResultReason14]

Generated20 ==
  [CredentialType |-> CredentialType20, CryptographicAlgorithm |-> CryptographicAlgorithm20,
   DerivationMethod |-> DerivationMethod20, LinkType |-> LinkType20, ObjectType |-> ObjectType20,
   Operation |-> Operation20, ProfileName |-> ProfileName20, QueryFunction |-> QueryFunction20,
   RecommendedCurve |-> RecommendedCurve20, ResultReason |-> ResultReason20]
=============================================================================
