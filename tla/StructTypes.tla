---------------------------- MODULE StructTypes -----------------------------
(***************************************************************************)
(* The struct types of the repository that are marshaled: messages,        *)
(* objects, attributes and payloads.  A struct is the sequence of its      *)
(* fields, and a field has a type as in Structs.  Of and Opt are fields of *)
(* one type without a tag of their own, and the latter are omitempty.  The *)
(* enumerations and masks of kmip14 and kmip20 are Enum and Mask.  Types   *)
(* of package kmip20 have names that end in _20.                           *)
(***************************************************************************)
EXTENDS Sequences

Struct(name)   == <<"struct", name>>
Struct20(name) == <<"struct", name, "kmip20">>
Ptr(type)      == <<"ptr">> \o type
Slice(type)    == <<"slice">> \o type

Int_      == <<"int">>
Bool      == <<"bool">>
String_   == <<"string">>
Bytes_    == <<"bytes">>
Time      == <<"time">>
BigInt    == <<"bigint">>
Enum      == <<"enum">>
Mask      == <<"mask">>
UID       == <<"uid">>
Values_   == <<"Values">>
Interface == <<"iface">>

Of(type, names) ==
  [i \in DOMAIN names |-> [name |-> names[i], type |-> type, ttlv |-> "", flags |-> {}]]

Opt(type, names) ==
  [i \in DOMAIN names |-> [name |-> names[i], type |-> type, ttlv |-> "", flags |-> {"omitempty"}]]

----------------------------------------------------------------------------
\* Common structures and messages.

Authentication == Of(Slice(Struct("Credential")), <<"Credential">>)

Nonce == Of(Bytes_, <<"NonceID", "NonceValue">>)

ProtocolVersion == Of(Int_, <<"ProtocolVersionMajor", "ProtocolVersionMinor">>)

MessageExtension ==
  Of(String_, <<"VendorIdentification">>) \o Of(Bool, <<"CriticalityIndicator">>)
  \o Of(Interface, <<"VendorExtension">>)

Attributes == Of(Slice(Struct("Attribute")), <<"Attributes">>)

RequestMessage ==
  Of(Struct("RequestHeader"), <<"RequestHeader">>)
  \o Of(Slice(Struct("RequestBatchItem")), <<"BatchItem">>)

ResponseMessage ==
  Of(Struct("ResponseHeader"), <<"ResponseHeader">>)
  \o Of(Slice(Struct("ResponseBatchItem")), <<"BatchItem">>)

RequestHeader ==
  Of(Struct("ProtocolVersion"), <<"ProtocolVersion">>) \o Opt(Int_, <<"MaximumResponseSize">>)
  \o Opt(String_, <<"ClientCorrelationValue", "ServerCorrelationValue">>)
  \o Opt(Bool, <<"AsynchronousIndicator", "AttestationCapableIndicator">>)
  \o Of(Slice(Enum), <<"AttestationType">>)
  \o Of(Ptr(Struct("Authentication")), <<"Authentication">>)
  \o Opt(Enum, <<"BatchErrorContinuationOption">>) \o Opt(Bool, <<"BatchOrderOption">>)
  \o Of(Ptr(Time), <<"TimeStamp">>) \o Of(Int_, <<"BatchCount">>)

RequestBatchItem ==
  Of(Enum, <<"Operation">>) \o Opt(Bytes_, <<"UniqueBatchItemID">>)
  \o Of(Interface, <<"RequestPayload">>)
  \o Opt(Ptr(Struct("MessageExtension")), <<"MessageExtension">>)

ResponseHeader ==
  Of(Struct("ProtocolVersion"), <<"ProtocolVersion">>) \o Of(Time, <<"TimeStamp">>)
  \o Of(Ptr(Struct("Nonce")), <<"Nonce">>) \o Of(Slice(Enum), <<"AttestationType">>)
  \o Opt(String_, <<"ClientCorrelationValue", "ServerCorrelationValue">>)
  \o Of(Int_, <<"BatchCount">>)

ResponseBatchItem ==
  Opt(Enum, <<"Operation">>) \o Opt(Bytes_, <<"UniqueBatchItemID">>)
  \o Of(Enum, <<"ResultStatus">>) \o Opt(Enum, <<"ResultReason">>)
  \o Opt(String_, <<"ResultMessage">>) \o Opt(Bytes_, <<"AsynchronousCorrelationValue">>)
  \o Opt(Interface, <<"ResponsePayload">>)
  \o Of(Ptr(Struct("MessageExtension")), <<"MessageExtension">>)

----------------------------------------------------------------------------
\* Objects and attributes.

Attribute ==
  Of(String_, <<"AttributeName">>) \o Opt(Int_, <<"AttributeIndex">>)
  \o Of(Interface, <<"AttributeValue">>)

Credential == Of(Enum, <<"CredentialType">>) \o Of(Interface, <<"CredentialValue">>)

UsernameAndPasswordCredentialValue ==
  Of(String_, <<"Username">>) \o Opt(String_, <<"Password">>)

DeviceCredentialValue ==
  Opt(String_, <<"DeviceSerialNumber", "Password", "DeviceIdentifier", "NetworkIdentifier", "MachineIdentifier", "MediaIdentifier">>)

AttestationCredentialValue ==
  Of(Struct("Nonce"), <<"Nonce">>) \o Of(Enum, <<"AttestationType">>)
  \o Opt(Bytes_, <<"AttestationMeasurement", "AttestationAssertion">>)

KeyBlock ==
  Of(Enum, <<"KeyFormatType">>) \o Opt(Enum, <<"KeyCompressionType">>)
  \o Opt(Ptr(Struct("KeyValue")), <<"KeyValue">>) \o Opt(Enum, <<"CryptographicAlgorithm">>)
  \o Opt(Int_, <<"CryptographicLength">>)
  \o Of(Ptr(Struct("KeyWrappingData")), <<"KeyWrappingData">>)

KeyValue == Of(Interface, <<"KeyMaterial">>) \o Of(Slice(Struct("Attribute")), <<"Attribute">>)

KeyWrappingData ==
  Of(Enum, <<"WrappingMethod">>)
  \o Of(Ptr(Struct("EncryptionKeyInformation")), <<"EncryptionKeyInformation">>)
  \o Of(Ptr(Struct("MACSignatureKeyInformation")), <<"MACSignatureKeyInformation">>)
  \o Of(Bytes_, <<"MACSignature", "IVCounterNonce">>) \o Opt(Enum, <<"EncodingOption">>)

EncryptionKeyInformation ==
  Of(String_, <<"UniqueIdentifier">>)
  \o Of(Ptr(Struct("CryptographicParameters")), <<"CryptographicParameters">>)

MACSignatureKeyInformation ==
  Of(String_, <<"UniqueIdentifier">>)
  \o Of(Ptr(Struct("CryptographicParameters")), <<"CryptographicParameters">>)

TransparentSymmetricKey == Of(Bytes_, <<"Key">>)

TransparentDSAPrivateKey == Of(Ptr(BigInt), <<"P", "Q", "G", "X">>)

TransparentDSAPublicKey == Of(Ptr(BigInt), <<"P", "Q", "G", "Y">>)

TransparentRSAPrivateKey ==
  Of(Ptr(BigInt), <<"Modulus", "PrivateExponent", "PublicExponent", "P", "Q", "PrimeExponentP", "PrimeExponentQ", "CRTCoefficient">>)

TransparentRSAPublicKey == Of(Ptr(BigInt), <<"Modulus", "PublicExponent">>)

TransparentDHPrivateKey == Of(Ptr(BigInt), <<"P", "Q", "G", "J", "X">>)

TransparentDHPublicKey == Of(Ptr(BigInt), <<"P", "Q", "G", "J", "Y">>)

TransparentECDSAPrivateKey == Of(Enum, <<"RecommendedCurve">>) \o Of(Ptr(BigInt), <<"D">>)

TransparentECDSAPublicKey == Of(Enum, <<"RecommendedCurve">>) \o Of(Bytes_, <<"QString">>)

TransparentECPrivateKey == Of(Enum, <<"RecommendedCurve">>) \o Of(Ptr(BigInt), <<"D">>)

TransparentECPublicKey == Of(Enum, <<"RecommendedCurve">>) \o Of(Bytes_, <<"QString">>)

TemplateAttribute ==
  Of(Slice(Struct("Name")), <<"Name">>) \o Of(Slice(Struct("Attribute")), <<"Attribute">>)

Name == Of(String_, <<"NameValue">>) \o Of(Enum, <<"NameType">>)

CryptographicParameters ==
  Opt(Enum, <<"BlockCipherMode", "PaddingMethod", "HashingAlgorithm", "KeyRoleType", "DigitalSignatureAlgorithm", "CryptographicAlgorithm">>)
  \o Opt(Bool, <<"RandomIV">>)
  \o Opt(Int_, <<"IVLength", "TagLength", "FixedFieldLength", "InvocationFieldLength", "CounterLength", "InitialCounterValue", "SaltLength">>)
  \o Opt(Enum, <<"MaskGenerator", "MaskGeneratorHashingAlgorithm">>)
  \o Opt(Bytes_, <<"PSource">>) \o Opt(Int_, <<"TrailerField">>)

Certificate == Of(Enum, <<"CertificateType">>) \o Of(Bytes_, <<"CertificateValue">>)

SymmetricKey == Of(Struct("KeyBlock"), <<"KeyBlock">>)

PublicKey == Of(Struct("KeyBlock"), <<"KeyBlock">>)

PrivateKey == Of(Struct("KeyBlock"), <<"KeyBlock">>)

SplitKey ==
  Of(Int_, <<"SplitKeyParts", "KeyPartIdentifier", "SplitKeyThreshold">>)
  \o Of(Enum, <<"SplitKeyMethod">>) \o Opt(Ptr(BigInt), <<"PrimeFieldSize">>)
  \o Of(Struct("KeyBlock"), <<"KeyBlock">>)

Template == Of(Slice(Struct("Attribute")), <<"Attribute">>)

SecretData == Of(Enum, <<"SecretDataType">>) \o Of(Struct("KeyBlock"), <<"KeyBlock">>)

OpaqueObject == Of(Enum, <<"OpaqueDataType">>) \o Of(Bytes_, <<"OpaqueDataValue">>)

PGPKey == Of(Int_, <<"PGPKeyVersion">>) \o Of(Struct("KeyBlock"), <<"KeyBlock">>)

----------------------------------------------------------------------------
\* Payloads of KMIP 1.

CreateRequestPayload ==
  Of(Enum, <<"ObjectType">>) \o Of(Struct("TemplateAttribute"), <<"TemplateAttribute">>)

CreateResponsePayload ==
  Of(Enum, <<"ObjectType">>) \o Of(String_, <<"UniqueIdentifier">>)
  \o Of(Ptr(Struct("TemplateAttribute")), <<"TemplateAttribute">>)

CreateKeyPairRequestPayload ==
  Of(Ptr(Struct("TemplateAttribute")), <<"CommonTemplateAttribute", "PrivateKeyTemplateAttribute", "PublicKeyTemplateAttribute">>)

CreateKeyPairResponsePayload ==
  Of(String_, <<"PrivateKeyUniqueIdentifier", "PublicKeyUniqueIdentifier">>)
  \o Of(Ptr(Struct("TemplateAttribute")), <<"PrivateKeyTemplateAttribute", "PublicKeyTemplateAttribute">>)

DestroyRequestPayload == Of(String_, <<"UniqueIdentifier">>)

DestroyResponsePayload == Of(String_, <<"UniqueIdentifier">>)

DiscoverVersionsRequestPayload == Of(Slice(Struct("ProtocolVersion")), <<"ProtocolVersion">>)

DiscoverVersionsResponsePayload == Of(Slice(Struct("ProtocolVersion")), <<"ProtocolVersion">>)

GetRequestPayload == Of(String_, <<"UniqueIdentifier">>)

GetResponsePayload ==
  Of(Enum, <<"ObjectType">>) \o Of(String_, <<"UniqueIdentifier">>)
  \o Of(Ptr(Struct("Certificate")), <<"Certificate">>)
  \o Of(Ptr(Struct("SymmetricKey")), <<"SymmetricKey">>)
  \o Of(Ptr(Struct("PrivateKey")), <<"PrivateKey">>)
  \o Of(Ptr(Struct("PublicKey")), <<"PublicKey">>)
  \o Of(Ptr(Struct("SplitKey")), <<"SplitKey">>) \o Of(Ptr(Struct("Template")), <<"Template">>)
  \o Of(Ptr(Struct("SecretData")), <<"SecretData">>)
  \o Of(Ptr(Struct("OpaqueObject")), <<"OpaqueObject">>)

RegisterRequestPayload ==
  Of(Enum, <<"ObjectType">>) \o Of(Struct("TemplateAttribute"), <<"TemplateAttribute">>)
  \o Of(Ptr(Struct("Certificate")), <<"Certificate">>)
  \o Of(Ptr(Struct("SymmetricKey")), <<"SymmetricKey">>)
  \o Of(Ptr(Struct("PrivateKey")), <<"PrivateKey">>)
  \o Of(Ptr(Struct("PublicKey")), <<"PublicKey">>)
  \o Of(Ptr(Struct("SplitKey")), <<"SplitKey">>) \o Of(Ptr(Struct("Template")), <<"Template">>)
  \o Of(Ptr(Struct("SecretData")), <<"SecretData">>)
  \o Of(Ptr(Struct("OpaqueObject")), <<"OpaqueObject">>)

RegisterResponsePayload ==
  Of(String_, <<"UniqueIdentifier">>)
  \o Of(Struct("TemplateAttribute"), <<"TemplateAttribute">>)

----------------------------------------------------------------------------
\* Payloads of KMIP 2.

ActivateRequestPayload_20 == Of(Ptr(UID), <<"UniqueIdentifier">>)

ActivateResponsePayload_20 == Of(String_, <<"UniqueIdentifier">>)

DestroyRequestPayload_20 == Of(Ptr(UID), <<"UniqueIdentifier">>)

DestroyResponsePayload_20 == Of(String_, <<"UniqueIdentifier">>)

GetRequestPayload_20 == Of(Ptr(UID), <<"UniqueIdentifier">>)

GetResponsePayload_20 ==
  Of(Enum, <<"ObjectType">>) \o Of(String_, <<"UniqueIdentifier">>)
  \o Of(Struct("SymmetricKey"), <<"Key">>)

LocateRequestPayload_20 == Of(Interface, <<"Attributes">>)

LocateResponsePayload_20 == Of(String_, <<"UniqueIdentifier">>)

CapabilityInformation_20 ==
  Of(Bool, <<"StreamingCapability", "AsynchronousCapability", "AttestationCapability", "BatchUndoCapability", "BatchContinueCapability">>)
  \o Of(Enum, <<"UnwrapMode", "DestroyAction", "ShreddingAlgorithm", "RNGMode">>)
  \o Of(Bool, <<"QuantumSafeCapability">>)

DefaultsInformation_20 == Of(Struct20("ObjectDefaults"), <<"ObjectDefaults">>)

ExtensionInformation_20 ==
  Of(String_, <<"ExtensionName">>)
  \o Of(Int_, <<"ExtensionTag", "ExtensionType", "ExtensionEnumeration">>)
  \o Of(Bool, <<"ExtensionAttribute">>) \o Of(Int_, <<"ExtensionParentStructureTag">>)
  \o Of(String_, <<"ExtensionDescription">>)

ObjectDefaults_20 == Of(Enum, <<"ObjectType">>) \o Of(Struct("Attributes"), <<"Attributes">>)

RNGParameters_20 ==
  Of(Enum, <<"RNGAlgorithm", "CryptographicAlgorithm">>) \o Of(Int_, <<"CryptographicLength">>)
  \o Of(Enum, <<"HashingAlgorithm", "DRBGAlgorithm", "RecommendedCurve", "FIPS186Variation">>)
  \o Of(Bool, <<"PredictionResistance">>)

ServerInformation_20 ==
  Of(String_, <<"ServerName", "ServerSerialNumber", "ServerVersion", "ServerLoad", "ProductName", "BuildLevel", "BuildDate", "ClusterInfo">>)
  \o Of(Slice(String_), <<"AlternativeFailoverEndpoints", "VendorSpecific">>)

QueryRequestPayload_20 == Of(Enum, <<"QueryFunction">>)

QueryResponsePayload_20 ==
  Of(Slice(Enum), <<"Operation", "ObjectType">>) \o Of(String_, <<"VendorIdentification">>)
  \o Of(Slice(Struct20("ServerInformation")), <<"ServerInformation">>)
  \o Of(Slice(String_), <<"ApplicationNamespace">>)
  \o Of(Slice(Struct20("ExtensionInformation")), <<"ExtensionInformation">>)
  \o Of(Enum, <<"AttestationType">>)
  \o Of(Slice(Struct20("RNGParameters")), <<"RNGParameters">>)
  \o Of(Slice(Enum), <<"ProfileInformation", "ValidationInformation">>)
  \o Of(Slice(Struct20("CapabilityInformation")), <<"CapabilityInformation">>)
  \o Of(Enum, <<"ClientRegistrationMethod">>)
  \o Of(Ptr(Struct20("DefaultsInformation")), <<"DefaultsInformation">>)
  \o Of(Slice(Mask), <<"ProtectionStorageMasks">>)

RevocationReason_20 == Of(Enum, <<"RevocationReasonCode">>)

RevokeRequestPayload_20 ==
  Of(Ptr(UID), <<"UniqueIdentifier">>)
  \o Of(Struct20("RevocationReason"), <<"RevocationReason">>)
  \o Of(Ptr(Time), <<"CompromiseOccurrenceDate">>)

RevokeResponsePayload_20 == Of(String_, <<"UniqueIdentifier">>)

SetAttributeRequestPayload_20 ==
  Of(Ptr(UID), <<"UniqueIdentifier">>)
  \o <<[name |-> "NewAttribute", type |-> Struct20("Attributes"), ttlv |-> "DerivationData", flags |-> {}]>>

SetAttributeResponsePayload_20 == Of(String_, <<"UniqueIdentifier">>)

Attributes_20 == Of(Values_, <<"Values">>)

CreateRequestPayload_20 ==
  <<[name |-> "TTLVTag", type |-> Struct(""), ttlv |-> "RequestPayload", flags |-> {}]>>
  \o Of(Enum, <<"ObjectType">>) \o Of(Interface, <<"Attributes">>)
  \o Opt(Mask, <<"ProtectionStorageMasks">>)

CreateResponsePayload_20 == Of(Enum, <<"ObjectType">>) \o Of(String_, <<"UniqueIdentifier">>)

CreateKeyPairRequestPayload_20 ==
  Of(Interface, <<"CommonAttributes", "PrivateKeyAttributes", "PublicKeyAttributes">>)
  \o Opt(Mask, <<"CommonProtectionStorageMasks", "PrivateProtectionStorageMasks", "PublicProtectionStorageMasks">>)

CreateKeyPairResponsePayload_20 ==
  Of(String_, <<"PrivateKeyUniqueIdentifier", "PublicKeyUniqueIdentifier">>)

----------------------------------------------------------------------------
\* All of them, by name.
Declared == {
  <<<<"">>, <<>>>>,
  <<<<"Authentication">>, Authentication>>, <<<<"Nonce">>, Nonce>>,
  <<<<"ProtocolVersion">>, ProtocolVersion>>, <<<<"MessageExtension">>, MessageExtension>>,
  <<<<"Attributes">>, Attributes>>, <<<<"RequestMessage">>, RequestMessage>>,
  <<<<"ResponseMessage">>, ResponseMessage>>, <<<<"RequestHeader">>, RequestHeader>>,
  <<<<"RequestBatchItem">>, RequestBatchItem>>, <<<<"ResponseHeader">>, ResponseHeader>>,
  <<<<"ResponseBatchItem">>, ResponseBatchItem>>, <<<<"Attribute">>, Attribute>>,
  <<<<"Credential">>, Credential>>,
  <<<<"UsernameAndPasswordCredentialValue">>, UsernameAndPasswordCredentialValue>>,
  <<<<"DeviceCredentialValue">>, DeviceCredentialValue>>,
  <<<<"AttestationCredentialValue">>, AttestationCredentialValue>>,
  <<<<"KeyBlock">>, KeyBlock>>, <<<<"KeyValue">>, KeyValue>>,
  <<<<"KeyWrappingData">>, KeyWrappingData>>,
  <<<<"EncryptionKeyInformation">>, EncryptionKeyInformation>>,
  <<<<"MACSignatureKeyInformation">>, MACSignatureKeyInformation>>,
  <<<<"TransparentSymmetricKey">>, TransparentSymmetricKey>>,
  <<<<"TransparentDSAPrivateKey">>, TransparentDSAPrivateKey>>,
  <<<<"TransparentDSAPublicKey">>, TransparentDSAPublicKey>>,
  <<<<"TransparentRSAPrivateKey">>, TransparentRSAPrivateKey>>,
  <<<<"TransparentRSAPublicKey">>, TransparentRSAPublicKey>>,
  <<<<"TransparentDHPrivateKey">>, TransparentDHPrivateKey>>,
  <<<<"TransparentDHPublicKey">>, TransparentDHPublicKey>>,
  <<<<"TransparentECDSAPrivateKey">>, TransparentECDSAPrivateKey>>,
  <<<<"TransparentECDSAPublicKey">>, TransparentECDSAPublicKey>>,
  <<<<"TransparentECPrivateKey">>, TransparentECPrivateKey>>,
  <<<<"TransparentECPublicKey">>, TransparentECPublicKey>>,
  <<<<"TemplateAttribute">>, TemplateAttribute>>, <<<<"Name">>, Name>>,
  <<<<"CryptographicParameters">>, CryptographicParameters>>,
  <<<<"Certificate">>, Certificate>>, <<<<"SymmetricKey">>, SymmetricKey>>,
  <<<<"PublicKey">>, PublicKey>>, <<<<"PrivateKey">>, PrivateKey>>,
  <<<<"SplitKey">>, SplitKey>>, <<<<"Template">>, Template>>, <<<<"SecretData">>, SecretData>>,
  <<<<"OpaqueObject">>, OpaqueObject>>, <<<<"PGPKey">>, PGPKey>>,
  <<<<"CreateRequestPayload">>, CreateRequestPayload>>,
  <<<<"CreateResponsePayload">>, CreateResponsePayload>>,
  <<<<"CreateKeyPairRequestPayload">>, CreateKeyPairRequestPayload>>,
  <<<<"CreateKeyPairResponsePayload">>, CreateKeyPairResponsePayload>>,
  <<<<"DestroyRequestPayload">>, DestroyRequestPayload>>,
  <<<<"DestroyResponsePayload">>, DestroyResponsePayload>>,
  <<<<"DiscoverVersionsRequestPayload">>, DiscoverVersionsRequestPayload>>,
  <<<<"DiscoverVersionsResponsePayload">>, DiscoverVersionsResponsePayload>>,
  <<<<"GetRequestPayload">>, GetRequestPayload>>,
  <<<<"GetResponsePayload">>, GetResponsePayload>>,
  <<<<"RegisterRequestPayload">>, RegisterRequestPayload>>,
  <<<<"RegisterResponsePayload">>, RegisterResponsePayload>>,
  <<<<"ActivateRequestPayload", "kmip20">>, ActivateRequestPayload_20>>,
  <<<<"ActivateResponsePayload", "kmip20">>, ActivateResponsePayload_20>>,
  <<<<"DestroyRequestPayload", "kmip20">>, DestroyRequestPayload_20>>,
  <<<<"DestroyResponsePayload", "kmip20">>, DestroyResponsePayload_20>>,
  <<<<"GetRequestPayload", "kmip20">>, GetRequestPayload_20>>,
  <<<<"GetResponsePayload", "kmip20">>, GetResponsePayload_20>>,
  <<<<"LocateRequestPayload", "kmip20">>, LocateRequestPayload_20>>,
  <<<<"LocateResponsePayload", "kmip20">>, LocateResponsePayload_20>>,
  <<<<"CapabilityInformation", "kmip20">>, CapabilityInformation_20>>,
  <<<<"DefaultsInformation", "kmip20">>, DefaultsInformation_20>>,
  <<<<"ExtensionInformation", "kmip20">>, ExtensionInformation_20>>,
  <<<<"ObjectDefaults", "kmip20">>, ObjectDefaults_20>>,
  <<<<"RNGParameters", "kmip20">>, RNGParameters_20>>,
  <<<<"ServerInformation", "kmip20">>, ServerInformation_20>>,
  <<<<"QueryRequestPayload", "kmip20">>, QueryRequestPayload_20>>,
  <<<<"QueryResponsePayload", "kmip20">>, QueryResponsePayload_20>>,
  <<<<"RevocationReason", "kmip20">>, RevocationReason_20>>,
  <<<<"RevokeRequestPayload", "kmip20">>, RevokeRequestPayload_20>>,
  <<<<"RevokeResponsePayload", "kmip20">>, RevokeResponsePayload_20>>,
  <<<<"SetAttributeRequestPayload", "kmip20">>, SetAttributeRequestPayload_20>>,
  <<<<"SetAttributeResponsePayload", "kmip20">>, SetAttributeResponsePayload_20>>,
  <<<<"Attributes", "kmip20">>, Attributes_20>>,
  <<<<"CreateRequestPayload", "kmip20">>, CreateRequestPayload_20>>,
  <<<<"CreateResponsePayload", "kmip20">>, CreateResponsePayload_20>>,
  <<<<"CreateKeyPairRequestPayload", "kmip20">>, CreateKeyPairRequestPayload_20>>,
  <<<<"CreateKeyPairResponsePayload", "kmip20">>, CreateKeyPairResponsePayload_20>>}
=============================================================================
