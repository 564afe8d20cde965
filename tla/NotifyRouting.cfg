SPECIFICATION Spec
CONSTANTS
    Sends = {s1}
    Acks = {}
    Channels <- MCChannels
    AddressChannels = {email, voice}
    LogOnlyChannels = {inapp}
    Adapters = {webpush, email}
    DefaultChannel = webpush
    webpush = webpush
    email = email
    voice = voice
    inapp = inapp
    DefaultTenant = DefaultTenant
    NoSend = NoSend
    other = other
    Tenants = {DefaultTenant, other}
    NoPreference = NoPreference
    Day = 3
    Calls <- RoutingCalls
    Tables <- RoutingTables
    MaxFaults = 0
INVARIANTS ChannelsRespected NoChannelForgotten
