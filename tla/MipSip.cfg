SPECIFICATION Spec
CONSTANT
    Lines = {"SEIP", "SSIP"}
PROPERTY
    SipWritesOnlySsip
