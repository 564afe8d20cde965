SPECIFICATION FairSpec
CONSTANTS
    Sends = {s1, s2}
    Acks = {a1, a2}
    Channels <- MCChannels
    AddressChannels = {email, voice}
    LogOnlyChannels = {inapp}
    Adapters = {webpush, email}
    DefaultChannel = webpush
    webpush = webpush
    email = email
    voice = voice
    inapp = inapp
    DefaultTenant = DefaultTenant
    NoSend = NoSend
    other = other
    Tenants = {DefaultTenant, other}
    NoPreference = NoPreference
    Day = 1
    Calls <- LogCalls
    Tables <- LogTables
    MaxFaults = 1
INVARIANTS LogTellsTruth AckedOnce
PROPERTIES SendReturns DeliveredIsLogged ImplementsDelivery
