CONSTANTS
    MaxId = 7
    MaxFaults = 2
SPECIFICATION Spec
INVARIANT TypeOK
PROPERTIES NamedTunnelIsKept OkMeansInstalled InstallGetsThere
