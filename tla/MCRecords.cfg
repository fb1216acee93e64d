SPECIFICATION Spec
CONSTANTS
    r1 = r1  r2 = r2  a = a  b = b  c = c  w1 = w1  w2 = w2  p1 = p1
    feature = feature  bug = bug  narrow = narrow  wide = wide
    open = open  closed = closed
    g1 = g1  g2 = g2  s1 = s1  s2 = s2  n1 = n1  n2 = n2  t1 = t1  t2 = t2
    f1 = f1  f2 = f2  project = project  user = user
    TypeName = {n1, n2}
    Text = {t1, t2}
    Empty = Empty
    Register = {g1, g2}
    Scope = {project, user}
    File = {f1, f2}
    Content = {t1, t2}
    Walk = {{f1}, {f1, f2}}
    Sync = {s1, s2}
    MaxRow = 3
    None = None
    Node <- MCNode
    EntityType <- MCEntityType
    Edge = {1, 2, 3}
    Request = {r1, r2}
    MaxDepth = 2
    d = d  o = o
    Subject = b
    TaskOf <- MCTaskOf
    Rank <- MCRank
    MaxHops = 2
    MaxNodes = 2
    Linkable <- MCLinkable
    Posted <- MCPosted
    Patches <- MCPatches
    Id = {1, 2}
    Created <- MCCreated
    Type = {feature, bug}
    Contract = {narrow, wide}
    Fits <- MCFits
    Policy = {p1}
    Body = {open, closed}
    Writer = {w1, w2}
    Patch <- MCPatch
    Wanted = feature
    Limit = 1
    MaxTime = 2
INVARIANT PacketsShowTheDecisions
INVARIANT CyclesComeFromOverlaps
INVARIANT ContractsFit
INVARIANT PagesMissNothing
INVARIANT RegistryServesTheFiles
PROPERTY SyncsAreExact
PROPERTY AttachedPolicyFixed
SYMMETRY Symmetry
