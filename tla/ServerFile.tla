----------------------------- MODULE ServerFile -----------------------------
(***************************************************************************)
(* The settings of a server, which are checked three times on the way from *)
(* server.yaml to the device: by LoadServerConfig (config.go), by          *)
(* NewServer (server.go), for programs that embed the server, and by       *)
(* newTunnelDevice (device.go).                                            *)
(***************************************************************************)
EXTENDS ConfigText

CONSTANT ServerFiles   \* contents of server.yaml to consider

ASSUME ServerFilesAssumption ==
    \A y \in ServerFiles :
        /\ DOMAIN y = {"port", "key", "ip", "mtu", "peers", "log"}
        /\ y.port \in Int /\ y.mtu \in Int

NoConfig == [refused |-> TRUE]   \* an error instead of a configuration

PortOK(n) == n >= 1 /\ n <= 65535
DefaultMTU == 1280
WithDefault(mtu) == IF mtu = 0 THEN DefaultMTU ELSE mtu
MTUOK(mtu) == mtu >= 1280 /\ mtu <= 1500

\* Defective variant of LoadServerConfig: the range of the MTU is checked
\* against a bound of its own.
LoadServerConfigJumbo(y) ==
    IF /\ PortOK(y.port) /\ ValidSecretRef(y.key)
       /\ ParseTunnelIP(y.ip) = ServerTunnelIP
       /\ WithDefault(y.mtu) >= 1280 /\ WithDefault(y.mtu) <= 1501
       /\ y.peers # "" /\ y.log \in {"", "json", "text"}
    THEN [port |-> y.port, key |-> y.key, ip |-> ParseTunnelIP(y.ip),
          mtu |-> WithDefault(y.mtu), peers |-> y.peers,
          log |-> IF y.log = "" THEN "json" ELSE y.log]
    ELSE NoConfig

\* LoadServerConfig, on a document that decodes.
LoadServerConfig(y) ==
    IF /\ PortOK(y.port) /\ ValidSecretRef(y.key)
       /\ ParseTunnelIP(y.ip) = ServerTunnelIP
       /\ MTUOK(WithDefault(y.mtu))
       /\ y.peers # "" /\ y.log \in {"", "json", "text"}
    THEN [port |-> y.port, key |-> y.key, ip |-> ParseTunnelIP(y.ip),
          mtu |-> WithDefault(y.mtu), peers |-> y.peers,
          log |-> IF y.log = "" THEN "json" ELSE y.log]
    ELSE NoConfig

\* ServerConfigFrom: log_format is not carried over.
ServerConfigFrom(fc) ==
    [port |-> fc.port, key |-> fc.key, ip |-> fc.ip, mtu |-> fc.mtu, peers |-> fc.peers]

\* NewServer, up to the load of the peers file: the settings it keeps.
NewServer(cfg) ==
    IF /\ PortOK(cfg.port) /\ ValidSecretRef(cfg.key)
       /\ cfg.ip # NoAddr /\ Unmap(cfg.ip) = ServerTunnelIP
       /\ MTUOK(WithDefault(cfg.mtu))
       /\ cfg.peers # ""
    THEN [cfg EXCEPT !.ip = Unmap(cfg.ip), !.mtu = WithDefault(cfg.mtu)]
    ELSE NoConfig

\* newTunnelDevice, before it creates anything.
DeviceAccepts(cfg) ==
    /\ cfg.ip # NoAddr /\ InSubnet(cfg.ip)
    /\ cfg.port >= 0 /\ cfg.port <= 65535
    /\ MTUOK(WithDefault(cfg.mtu))

\* newLogHandler.
LogHandlerAccepts(format) == format \in {"json", "text"}

\* A server.yaml is judged once, by the loader.  What it accepts, no later
\* stage of startup refuses or changes: the log handler exists, NewServer
\* keeps the settings as they are, and the device takes them; and what it
\* refuses, a program that passes the same settings to NewServer is refused
\* too, unless only the log format is at fault.
SettingsCheckedOnce ==
    \A y \in ServerFiles :
        LET fc == LoadServerConfig(y)
            direct == [port |-> y.port, key |-> y.key, ip |-> ParseAddr(y.ip),
                       mtu |-> y.mtu, peers |-> y.peers]
        IN  IF fc # NoConfig
            THEN /\ LogHandlerAccepts(fc.log)
                 /\ NewServer(ServerConfigFrom(fc)) = ServerConfigFrom(fc)
                 /\ DeviceAccepts(ServerConfigFrom(fc))
                 /\ NewServer(direct) = ServerConfigFrom(fc)
            ELSE NewServer(direct) # NoConfig => y.log \notin {"", "json", "text"}
=============================================================================
