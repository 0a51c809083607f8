SPECIFICATION Spec
CONSTANTS
    p1 = p1
    p2 = p2
    h1 = h1
    h2 = h2
    None = None
    Projects = {p1, p2}
    Hosts = {h1, h2}
    IPs = {ip1, ip2}
    Ports = {port1, port2, port3, port4}
    Faults = {"restart"}
    MaxCalls = 1
    Zone <- MCZone
    Peers <- MCPeers
    Decls <- MCDecls
SYMMETRY MCSymmetry
INVARIANTS TypeOK  
