SPECIFICATION Spec
CONSTANT
    MaxFaults = 2
    Watched = {"mount partition", "mount in existing root", "network files", "write macros"}
    Tools = {"imager", "imagecustomizer", "isomaker", "pkgworker", "srpmpacker", "specreader", "versionsprocessor", "licensecheck", "validatechroot", "grapher", "precacher", "graphpkgfetcher", "imagepkgfetcher"}
INVARIANT UsesAreHeld
INVARIANT ReleasedInOrder
INVARIANT NothingLeft
 
