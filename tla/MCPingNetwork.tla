---------------------------- MODULE MCPingNetwork ----------------------------
EXTENDS PingPaths

MCDevices   == 0..LastDevice
MCAddresses == 0..(LastDevice + 1)
MCAddr      == ShortAddress
AllPrograms == MeshNames \cup RouteNames
BigMesh     == {"mesh big"}
===============================================================================
