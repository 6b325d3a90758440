SPECIFICATION FairAdmissionSpec
INVARIANTS PayloadOnlyAdmitted
PROPERTIES HostDecides HandshakeCompletes
